---- MODULE Spec2Model ----
(***************************************************************************)
(* A model of the non-UI logic of the skin-screening client:               *)
(*   - src/src/data/conditionMap.ts            (label -> display name)     *)
(*   - src/supabase/functions/ailabtools-predict/index.ts   (vendor relay) *)
(*   - src/src/lib/getDiseaseStats.ts          (the two cached resolvers)  *)
(*                                                                         *)
(* JavaScript strings are TLA+ strings; TLC evaluates Len, Head, Tail,     *)
(* SubSeq and \o on them, so the string functions below work character by  *)
(* character as the library functions they model do.                       *)
(* JavaScript numbers are fixed-point integers in units of 1/100           *)
(* (0.5 is 50, 42000 is 4200000).                                          *)
(***************************************************************************)
EXTENDS Integers, Sequences, FiniteSets, TLC

VARIABLES
    \* ---- conditionMap.ts: one call of each function with a label
    label,          \* the argument of the calls
    namePc,         \* "call" before the call of getConditionName, "done" after it
    displayName,    \* the value getConditionName returned
    insightsPc,     \* the same for the call of getConditionNameForInsights
    queryName,      \* the value getConditionNameForInsights returned
    \* ---- ailabtools-predict/index.ts: one invocation of the handler
    API_KEY,        \* Deno.env.get("AILABTOOLS_API_KEY") || ""
    req,            \* the request: method, content-type header, body
    relayPc,        \* "request", "fetch" (awaiting the vendor), "done"
    vendorPayload,  \* the object sent to the vendor, Undefined before
    vendorCalls,    \* the number of fetch calls the invocation has made
    vendorRes,      \* how the vendor call settled, Undefined before
    relayRes,       \* the Response the handler returned, Undefined before
    \* ---- lib/getDiseaseStats.ts: the module's state and its calls
    OPENROUTER_API_KEY, \* import.meta.env.VITE_OPENROUTER_API_KEY, "" when unset
    statsCache,     \* the Map statsCache: key -> DiseaseStatsResult
    infoCache,      \* the Map infoCache: key -> DiseaseInfo
    calls,          \* the calls of the two resolvers, in the order of their start
    now,            \* the clock that new Date() reads
    \* ---- hooks/useDiseaseInsights.ts: one component that uses the hook
    mounted,        \* whether the component is mounted
    conditionProp,  \* the argument `condition` of the last render
    insights,       \* the hook's state: info, loadingInfo, errorInfo
    effects,        \* the runs of the effect, in the order of their start
    renders,        \* the number of renders with a new argument
    \* ---- Auth, Onboarding, ProfileGuard: the completeness rules on one row
    profile,        \* the row of the table profiles, Null when there is none
    verdicts        \* the result of each rule that has been applied

nameVars == <<label, namePc, displayName, insightsPc, queryName>>

relayVars ==
    <<API_KEY, req, relayPc, vendorPayload, vendorCalls, vendorRes, relayRes>>

resolverVars == <<OPENROUTER_API_KEY, statsCache, infoCache, calls, now>>

hookVars == <<mounted, conditionProp, insights, effects, renders>>

profileVars == <<profile, verdicts>>

vars == <<nameVars, relayVars, resolverVars, hookVars, profileVars>>

-----------------------------------------------------------------------------
(* String.prototype functions and the regular-expression classes the code   *)
(* uses.                                                                    *)

UPPER == "ABCDEFGHIJKLMNOPQRSTUVWXYZ"

LOWER == "abcdefghijklmnopqrstuvwxyz"

DIGITS == {"0", "1", "2", "3", "4", "5", "6", "7", "8", "9"}

\* the class \s of a regular expression, which is also what trim() removes
WHITESPACE == {" ", "\t", "\n", "\r"}

Char(s, i) ==
    SubSeq(s, i, i)

Min(S) == CHOOSE x \in S : \A y \in S : x <= y

Max(S) == 0 - Min({0 - y : y \in S})

\* the places of the upper-case letters in UPPER
UpperIndex ==
    [c \in {Char(UPPER, i) : i \in 1..Len(UPPER)} |->
        CHOOSE i \in 1..Len(UPPER) : Char(UPPER, i) = c]

LowerIndex ==
    [c \in {Char(LOWER, i) : i \in 1..Len(LOWER)} |->
        CHOOSE i \in 1..Len(LOWER) : Char(LOWER, i) = c]

toLowerChar(c) ==
    IF c \in DOMAIN UpperIndex THEN Char(LOWER, UpperIndex[c]) ELSE c

toUpperChar(c) ==
    IF c \in DOMAIN LowerIndex THEN Char(UPPER, LowerIndex[c]) ELSE c

\* s.toLowerCase(), a half of s at a time
RECURSIVE toLowerCase(_)
toLowerCase(s) ==
    IF Len(s) = 0 THEN ""
    ELSE IF Len(s) = 1 THEN toLowerChar(s)
    ELSE toLowerCase(SubSeq(s, 1, Len(s) \div 2))
            \o toLowerCase(SubSeq(s, Len(s) \div 2 + 1, Len(s)))

\* s.trim()
trim(s) ==
    IF \A i \in 1..Len(s) : Char(s, i) \in WHITESPACE
    THEN ""
    ELSE LET first == CHOOSE i \in 1..Len(s) :
                          /\ Char(s, i) \notin WHITESPACE
                          /\ \A j \in 1..(i - 1) : Char(s, j) \in WHITESPACE
             last == CHOOSE i \in 1..Len(s) :
                         /\ Char(s, i) \notin WHITESPACE
                         /\ \A j \in (i + 1)..Len(s) : Char(s, j) \in WHITESPACE
         IN  SubSeq(s, first, last)

startsWith(s, p) ==
    Len(p) <= Len(s) /\ SubSeq(s, 1, Len(p)) = p

includes(s, p) ==
    \E i \in 1..(Len(s) - Len(p) + 1) : SubSeq(s, i, i + Len(p) - 1) = p

\* s.split(/[seps]/) for a class of single characters: a tuple of strings
RECURSIVE splitChars(_, _)
splitChars(s, seps) ==
    IF \A i \in 1..Len(s) : Char(s, i) \notin seps
    THEN <<s>>
    ELSE LET i == CHOOSE k \in 1..Len(s) :
                      /\ Char(s, k) \in seps
                      /\ \A j \in 1..(k - 1) : Char(s, j) \notin seps
         IN  <<SubSeq(s, 1, i - 1)>> \o splitChars(SubSeq(s, i + 1, Len(s)), seps)

\* the length of the run of characters of the class at the start of s
RECURSIVE runLength(_, _)
runLength(s, class) ==
    IF s # "" /\ Head(s) \in class THEN 1 + runLength(Tail(s), class) ELSE 0

\* s.split(/[seps]+/): as splitChars, a run of separators being one separator
RECURSIVE splitRuns(_, _)
splitRuns(s, seps) ==
    IF \A i \in 1..Len(s) : Char(s, i) \notin seps
    THEN <<s>>
    ELSE LET i == CHOOSE k \in 1..Len(s) :
                      /\ Char(s, k) \in seps
                      /\ \A j \in 1..(k - 1) : Char(s, j) \notin seps
             n == runLength(SubSeq(s, i, Len(s)), seps)
         IN  <<SubSeq(s, 1, i - 1)>> \o splitRuns(SubSeq(s, i + n, Len(s)), seps)

\* parts.join(sep)
RECURSIVE join(_, _)
join(parts, sep) ==
    IF parts = <<>> THEN ""
    ELSE IF Len(parts) = 1 THEN parts[1]
    ELSE parts[1] \o sep \o join(Tail(parts), sep)

\* s.replace(/\s+/g, " "): the parts between the runs of whitespace, with one
\* space for each run
collapseWhitespace(s) ==
    join(splitRuns(s, WHITESPACE), " ")

\* parts.filter(Boolean) on strings: the empty string is falsy
RECURSIVE filterBoolean(_)
filterBoolean(parts) ==
    IF parts = <<>> THEN <<>>
    ELSE IF parts[1] = "" THEN filterBoolean(Tail(parts))
    ELSE <<parts[1]>> \o filterBoolean(Tail(parts))


-----------------------------------------------------------------------------
(* JavaScript values, as JSON.parse produces them and as the code tests     *)
(* them: a value carries its type.                                          *)

Undefined == [t |-> "undefined"]

Null == [t |-> "null"]

Num(n) == [t |-> "number", v |-> n]

Str(s) == [t |-> "string", v |-> s]

Arr(a) == [t |-> "array", v |-> a]

\* an object: r is the record of its own properties
Obj(r) == [t |-> "object", v |-> r]

EmptyObject == [t |-> "object", v |-> <<>>]

\* typeof x === "number"
IsNumber(x) == x.t = "number"

\* x == null, what ?. and ?? test
IsNullish(x) == x.t \in {"undefined", "null"}

\* Boolean(x)
Truthy(x) ==
    CASE x.t \in {"undefined", "null"} -> FALSE
      [] x.t = "number" -> x.v # 0
      [] x.t = "string" -> x.v # ""
      [] OTHER -> TRUE

\* x.f for a value that is not nullish (on a nullish one it throws a TypeError)
Get(x, f) ==
    IF x.t = "object" /\ f \in DOMAIN x.v THEN x.v[f] ELSE Undefined

-----------------------------------------------------------------------------
(* conditionMap.ts                                                          *)

RAW_CLASS_TO_NAME ==
    [k \in {"Class_17", "Class_37", "Class_40", "Class_9", "Class_1"} |->
        CASE k = "Class_17" -> "Seborrheic keratosis"
          [] k = "Class_37" -> "Atopic dermatitis (eczema)"
          [] k = "Class_40" -> "Psoriasis"
          [] k = "Class_9" -> "Acne vulgaris"
          [] k = "Class_1" -> "Benign melanocytic nevus"]

\* [\s_-]
WORD_SEPARATORS == WHITESPACE \cup {"_", "-"}

capitalize(w) ==
    IF w = "" THEN "" ELSE toUpperChar(Head(w)) \o Tail(w)

titleCase(s) ==
    LET words == splitRuns(toLowerCase(s), WORD_SEPARATORS)
    IN  join([i \in 1..Len(words) |-> capitalize(words[i])], " ")

\* normalizeKey without its trim()
normalizeKeyNoTrim(k) ==
    toLowerCase(k)

normalizeKey(k) ==
    toLowerCase(trim(k))

CLASS_TO_NAME ==
    [key \in {normalizeKey(k) : k \in DOMAIN RAW_CLASS_TO_NAME} |->
        RAW_CLASS_TO_NAME[CHOOSE k \in DOMAIN RAW_CLASS_TO_NAME : normalizeKey(k) = key]]

\* /^class[\s_-]?/i at the start of s: the length of the match, 0 for none
classPrefixLength(s) ==
    IF Len(s) >= 5 /\ toLowerCase(SubSeq(s, 1, 5)) = "class"
    THEN IF Len(s) >= 6 /\ Char(s, 6) \in WORD_SEPARATORS THEN 6 ELSE 5
    ELSE 0

\* /^class[\s_-]?(\d+)$/i.exec(s): the group (\d+), "" for no match
classDigits(s) ==
    LET n == classPrefixLength(s)
        d == SubSeq(s, n + 1, Len(s))
    IN  IF n > 0 /\ d # "" /\ \A i \in 1..Len(d) : Char(d, i) \in DIGITS
        THEN d
        ELSE ""

\* label.replace(/^class[\s_-]?/i, "")
stripClassPrefix(s) ==
    SubSeq(s, classPrefixLength(s) + 1, Len(s))

getConditionName(l) ==
    LET key == normalizeKey(l)
        m == classDigits(trim(l))
    IN  IF key \in DOMAIN CLASS_TO_NAME /\ CLASS_TO_NAME[key] # ""
        THEN CLASS_TO_NAME[key]
        ELSE IF m # ""
        THEN "Condition " \o m
        ELSE titleCase(collapseWhitespace(stripClassPrefix(l)))

\* the query name with the display name for a label without a mapping
getConditionNameForInsightsBeautified(l) ==
    getConditionName(l)

\* CLASS_TO_NAME[key] ?? label
getConditionNameForInsights(l) ==
    LET key == normalizeKey(l)
    IN  IF key \in DOMAIN CLASS_TO_NAME THEN CLASS_TO_NAME[key] ELSE l

-----------------------------------------------------------------------------
(* The labels getConditionName is called with: every concatenation of a     *)
(* margin, a first word, a separator, a tail and a margin.                  *)

LabelMargins == {"", " "}

LabelHeads == {"Class", "class", "CLASS", "some", "Classic"}

LabelSeparators == {"", "_", "-", " ", "__"}

LabelTails == {"17", "999", "9", "1x", "weird_label", "Weird  LABEL", ""}

Labels ==
    {m1 \o h \o s \o t \o m2 :
        m1 \in LabelMargins, h \in LabelHeads, s \in LabelSeparators,
        t \in LabelTails, m2 \in LabelMargins}

RelayIdle ==
    /\ API_KEY = ""
    /\ req = Undefined
    /\ relayPc = "done"
    /\ vendorPayload = Undefined
    /\ vendorCalls = 0
    /\ vendorRes = Undefined
    /\ relayRes = Undefined

ResolverIdle ==
    /\ OPENROUTER_API_KEY = ""
    /\ statsCache = <<>>
    /\ infoCache = <<>>
    /\ calls = <<>>
    /\ now = 0

NameIdle ==
    /\ label = ""
    /\ namePc = "done"
    /\ displayName = ""
    /\ insightsPc = "done"
    /\ queryName = ""

\* useState({ info: null, loadingInfo: false, errorInfo: null })
HookIdle ==
    /\ mounted = FALSE
    /\ conditionProp = Undefined
    /\ insights = [info |-> Null, loadingInfo |-> FALSE, errorInfo |-> Null]
    /\ effects = <<>>
    /\ renders = 0

ProfileIdle ==
    /\ profile = Null
    /\ verdicts = <<>>

NameInit ==
    /\ label \in Labels
    /\ namePc = "call"
    /\ displayName = ""
    /\ insightsPc = "call"
    /\ queryName = ""
    /\ RelayIdle
    /\ ResolverIdle
    /\ HookIdle
    /\ ProfileIdle

\* const name = getConditionName(label)
GetConditionName ==
    /\ namePc = "call"
    /\ displayName' = getConditionName(label)
    /\ namePc' = "done"
    /\ UNCHANGED <<label, insightsPc, queryName, relayVars, resolverVars,
                 hookVars, profileVars>>

\* const query = getConditionNameForInsights(label)
GetConditionNameForInsights ==
    /\ insightsPc = "call"
    /\ queryName' = getConditionNameForInsights(label)
    /\ insightsPc' = "done"
    /\ UNCHANGED <<label, namePc, displayName, relayVars, resolverVars,
                 hookVars, profileVars>>

\* the caller goes on to another label
NextLabel ==
    /\ namePc = "done"
    /\ insightsPc = "done"
    /\ label' \in Labels
    /\ namePc' = "call"
    /\ displayName' = ""
    /\ insightsPc' = "call"
    /\ queryName' = ""
    /\ UNCHANGED <<relayVars, resolverVars, hookVars, profileVars>>

NameNext ==
    \/ GetConditionName
    \/ GetConditionNameForInsights
    \/ NextLabel

SpecName ==
    NameInit /\ [][NameNext]_vars

-----------------------------------------------------------------------------
(* supabase/functions/ailabtools-predict/index.ts                           *)
(*                                                                          *)
(* A step of the handler ends in a completion: it returns a Response, it    *)
(* throws an error with a message, or it suspends on the fetch of a payload.*)
(* The body of a Response is the value given to JSON.stringify.             *)

Return(response) == [type |-> "return", value |-> response]

Throw(message) == [type |-> "throw", message |-> message]

Fetch(payload) == [type |-> "fetch", payload |-> payload]

corsHeaders ==
    ("Access-Control-Allow-Origin" :> "*") @@
    ("Access-Control-Allow-Headers" :>
        "authorization, x-client-info, apikey, content-type")

\* the statuses with which a Response may not be given a body
NULL_BODY_STATUS == {101, 103, 204, 205, 304}

\* new Response(body, {status}) with a body: "" when it constructs, else the
\* message of the RangeError or TypeError it throws
ResponseInitError(status) ==
    IF status \notin 200..599
    THEN "The status provided (" \o ToString(status)
             \o ") is not equal to 101 and outside the range [200, 599]"
    ELSE IF status \in NULL_BODY_STATUS
    THEN "Response with null body status cannot have body"
    ELSE ""

\* the Response without its status: new Response(..., { headers })
jsonStatusOmitted(body, status) ==
    Return([status |-> 200,
            headers |-> corsHeaders @@ ("Content-Type" :> "application/json"),
            body |-> body])

json(body, status) ==
    IF ResponseInitError(status) # ""
    THEN Throw(ResponseInitError(status))
    ELSE Return([status |-> status,
                 headers |-> corsHeaders @@ ("Content-Type" :> "application/json"),
                 body |-> body])

ErrorBody(message) == [success |-> FALSE, message |-> message]

\* the handler without its try and catch
catchRethrow(completion) ==
    completion

\* catch (err) { return json({ success: false, message }, 500) }
catch(completion) ==
    IF completion.type = "throw"
    THEN json(ErrorBody(completion.message), 500)
    ELSE completion

\* the comparison the other way round: a.confidence - b.confidence
compareConfidenceAscending(a, b) ==
    a.confidence.v - b.confidence.v

\* (a, b) => b.confidence - a.confidence
compareConfidence(a, b) ==
    b.confidence.v - a.confidence.v

\* x put into an array sorted by the comparator, behind the elements it does
\* not have to precede
RECURSIVE insertSorted(_, _)
insertSorted(sorted, x) ==
    IF sorted = <<>> THEN <<x>>
    ELSE IF compareConfidence(Head(sorted), x) <= 0
    THEN <<Head(sorted)>> \o insertSorted(Tail(sorted), x)
    ELSE <<x>> \o sorted

\* predictions.sort(comparator): Array.prototype.sort is stable
RECURSIVE sort(_)
sort(a) ==
    IF a = <<>> THEN <<>>
    ELSE insertSorted(sort(SubSeq(a, 1, Len(a) - 1)), a[Len(a)])

\* c => ({ label_name: c.name, confidence: ... })
toPrediction(c) ==
    [label_name |-> Get(c, "name"),
     confidence |->
        IF IsNumber(Get(c, "probability")) THEN Get(c, "probability")
        ELSE IF IsNullish(Get(c, "score")) THEN Num(0)
        ELSE Get(c, "score")]

\* the flag at a threshold of 0.3 in place of 0.5
malignantFlagAtDisplayThreshold(malignant_probability) ==
    malignant_probability.v >= 30

\* malignant_probability >= 0.5
malignantFlag(malignant_probability) ==
    malignant_probability.v >= 50

\* what normalizeVendor throws on v, "" when it returns
normalizeVendorError(v) ==
    LET conditions == Get(v, "conditions")
    IN  IF IsNullish(conditions) THEN ""
        ELSE IF conditions.t # "array"
        THEN "v.conditions?.map is not a function"
        ELSE IF \E i \in 1..Len(conditions.v) : IsNullish(conditions.v[i])
        THEN "Cannot read properties of null (reading 'name')"
        ELSE ""

normalizeVendor(v) ==
    LET conditions == Get(v, "conditions")
        predictions ==
            IF IsNullish(conditions) THEN <<>>
            ELSE sort([i \in 1..Len(conditions.v) |-> toPrediction(conditions.v[i])])
        top == IF predictions # <<>> THEN predictions[1]
               ELSE [label_name |-> Str("Unknown"), confidence |-> Num(0)]
        risk == Get(v, "risk")
        malignant_probability ==
            IF ~IsNullish(risk) /\ IsNumber(Get(risk, "malignant_probability"))
            THEN Get(risk, "malignant_probability")
            ELSE Num(0)
    IN  [success |-> TRUE,
         top1_label |-> top.label_name,
         top1_confidence |-> top.confidence,
         top_predictions |-> predictions,
         malignant_probability |-> malignant_probability,
         malignant_flag |-> malignantFlag(malignant_probability),
         model_version |-> "ailabtools-v1"]

\* the image without the split at the comma: imageBase64 || imageDataUrl
rawImageUnsplit(imageDataUrl, imageBase64) ==
    IF Truthy(imageBase64) THEN imageBase64 ELSE imageDataUrl

\* imageBase64 || (imageDataUrl?.includes(",") ? imageDataUrl.split(",")[1]
\*                                              : imageDataUrl)
rawImage(imageDataUrl, imageBase64) ==
    IF Truthy(imageBase64) THEN imageBase64
    ELSE IF ~IsNullish(imageDataUrl) /\ includes(imageDataUrl.v, ",")
    THEN Str(splitChars(imageDataUrl.v, {","})[2])
    ELSE imageDataUrl

\* the object sent to the vendor
buildVendorPayload(body) ==
    Obj(("image" :> rawImage(Get(body, "imageDataUrl"), Get(body, "imageBase64")))
        @@ (IF IsNumber(Get(body, "age")) THEN "age" :> Get(body, "age") ELSE <<>>)
        @@ (IF Truthy(Get(body, "sex")) THEN "sex" :> Get(body, "sex") ELSE <<>>)
        @@ (IF Truthy(Get(body, "body_part"))
            THEN "body_part" :> Get(body, "body_part") ELSE <<>>))

\* the try block without `if (!imageDataUrl && !imageBase64) return ...`
tryRequestImageUnchecked(r, key) ==
    IF key = ""
    THEN json(ErrorBody("Server missing API key"), 500)
    ELSE IF ~includes(r.contentType, "application/json")
    THEN json(ErrorBody("Use application/json body"), 400)
    ELSE IF r.body.kind # "json"
    THEN Throw("Unexpected end of JSON input")
    ELSE IF IsNullish(r.body.value)
    THEN Throw("Cannot read properties of null (reading 'imageDataUrl')")
    ELSE Fetch(buildVendorPayload(r.body.value))

\* the try block up to the fetch
tryRequest(r, key) ==
    IF key = ""
    THEN json(ErrorBody("Server missing API key"), 500)
    ELSE IF ~includes(r.contentType, "application/json")
    THEN json(ErrorBody("Use application/json body"), 400)
    ELSE IF r.body.kind # "json"
    THEN Throw("Unexpected end of JSON input")             \* await req.json()
    ELSE IF IsNullish(r.body.value)
    THEN Throw("Cannot read properties of null (reading 'imageDataUrl')")
    ELSE IF ~Truthy(Get(r.body.value, "imageDataUrl"))
            /\ ~Truthy(Get(r.body.value, "imageBase64"))
    THEN json(ErrorBody("No image provided"), 400)
    ELSE Fetch(buildVendorPayload(r.body.value))

\* the handler with the credential checked before the method
handleRequestKeyFirst(r, key) ==
    IF r.method = "OPTIONS"
    THEN Return([status |-> 200, headers |-> corsHeaders, body |-> "ok"])
    ELSE IF key = ""
    THEN json(ErrorBody("Server missing API key"), 500)
    ELSE IF r.method # "POST"
    THEN json(ErrorBody("Method not allowed. Use POST."), 405)
    ELSE catch(tryRequest(r, key))

\* the handler from its start to its return or to the fetch
handleRequest(r, key) ==
    IF r.method = "OPTIONS"
    THEN Return([status |-> 200, headers |-> corsHeaders, body |-> "ok"])
    ELSE IF r.method # "POST"
    THEN json(ErrorBody("Method not allowed. Use POST."), 405)
    ELSE catch(tryRequest(r, key))

\* vendorRes.ok
ok(status) ==
    status \in 200..299

\* the message without its `|| "Vendor error ..."`
vendorErrorMessageRawBody(res) ==
    IF res.body.kind = "text" THEN res.body.text ELSE ""

\* text || `Vendor error (status ${vendorRes.status}). Verify key & payload.`
\* with text = await vendorRes.text().catch(() => "")
vendorErrorMessage(res) ==
    LET text == IF res.body.kind = "text" THEN res.body.text ELSE ""
    IN  IF text # "" THEN text
        ELSE "Vendor error (status " \o ToString(res.status)
                 \o "). Verify key & payload."

\* the try block after the fetch has settled
tryVendor(settled) ==
    IF settled.kind = "rejected"
    THEN Throw(settled.message)
    ELSE IF ~ok(settled.status)
    THEN json(ErrorBody(vendorErrorMessage(settled)), settled.status)
    ELSE IF settled.body.kind # "json"
    THEN Throw("Unexpected token '<' is not valid JSON")   \* await vendorRes.json()
    ELSE IF IsNullish(settled.body.value)
    THEN Throw("Cannot read properties of null (reading 'conditions')")
    ELSE IF normalizeVendorError(settled.body.value) # ""
    THEN Throw(normalizeVendorError(settled.body.value))
    ELSE json(normalizeVendor(settled.body.value), 200)

\* the handler from the settling of the fetch to its return
handleVendor(settled) ==
    catch(tryVendor(settled))

-----------------------------------------------------------------------------
(* The requests the relay receives and the ways the vendor call settles.    *)

MaxConditions == 2

Methods == {"OPTIONS", "GET", "POST"}

ContentTypes ==
    {"", "text/plain", "application/json", "application/json; charset=utf-8"}

Optional(field, values) ==
    {<<>>} \cup {field :> x : x \in values}

RequestObjects ==
    {Obj(u @@ b @@ m) :
        u \in Optional("imageDataUrl",
                       {Str(""), Str("QUJD"), Str("data:image/png;base64,QUJD"),
                        Str("data:image/png;name=a,b;base64,QUJD")}),
        b \in Optional("imageBase64",
                       {Str(""), Str("REVG"), Str("data:image/png;base64,REVG")}),
        m \in {<<>>,
               ("age" :> Num(3000)) @@ ("sex" :> Str("male"))
                   @@ ("body_part" :> Str("arm")),
               ("age" :> Str("30")) @@ ("sex" :> Str(""))}}

RequestBodies ==
    {[kind |-> "none"], [kind |-> "text", text |-> "not json"]}
        \cup {[kind |-> "json", value |-> v] : v \in {Null} \cup RequestObjects}

Requests ==
    [method : Methods, contentType : ContentTypes, body : RequestBodies]

VendorConditions ==
    {Obj(("name" :> Str("Melanoma")) @@ ("probability" :> Num(90))),
     Obj(("name" :> Str("Nevus")) @@ ("probability" :> Num(30))),
     Obj(("name" :> Str("Eczema")) @@ ("score" :> Num(50))),
     Obj(("name" :> Str("Psoriasis")) @@ ("probability" :> Str("0.7"))
            @@ ("score" :> Num(70))),
     Obj(("name" :> Str("Acne")) @@ ("score" :> Null))}

VendorConditionLists ==
    UNION {[1..n -> VendorConditions] : n \in 0..MaxConditions}

VendorRisks ==
    {Null, EmptyObject}
        \cup {Obj("malignant_probability" :> p) :
                 p \in {Num(0), Num(49), Num(50), Num(100), Str("0.9"), Null}}

VendorJson ==
    {Null, Obj("conditions" :> Arr(<<Null>>))}
        \cup {Obj(c @@ r) :
                 c \in Optional("conditions",
                                {Null} \cup {Arr(l) : l \in VendorConditionLists}),
                 r \in Optional("risk", VendorRisks)}

VendorStatuses == {200, 304, 404, 503}

VendorErrorBodies ==
    {[kind |-> "text", text |-> ""], [kind |-> "text", text |-> "rate limited"],
     [kind |-> "unreadable"]}

VendorOkBodies ==
    {[kind |-> "text", text |-> "<html>"], [kind |-> "unreadable"]}
        \cup {[kind |-> "json", value |-> v] : v \in VendorJson}

RelayInit ==
    /\ API_KEY \in {"", "key"}
    /\ req \in Requests
    /\ relayPc = "request"
    /\ vendorPayload = Undefined
    /\ vendorCalls = 0
    /\ vendorRes = Undefined
    /\ relayRes = Undefined
    /\ NameIdle
    /\ ResolverIdle
    /\ HookIdle
    /\ ProfileIdle

\* what Deno.serve receives from the handler: the Response it returned, or
\* the completion itself when it threw
Outcome(completion) ==
    IF completion.type = "return" THEN completion.value ELSE completion

\* Deno.serve calls the handler with the request
RelayReceive ==
    /\ relayPc = "request"
    /\ LET c == handleRequest(req, API_KEY)
       IN  IF c.type = "fetch"
           THEN /\ relayPc' = "fetch"
                /\ vendorPayload' = c.payload
                /\ vendorCalls' = vendorCalls + 1
                /\ UNCHANGED relayRes
           ELSE /\ relayPc' = "done"
                /\ relayRes' = Outcome(c)
                /\ UNCHANGED <<vendorPayload, vendorCalls>>
    /\ UNCHANGED <<API_KEY, req, vendorRes, nameVars, resolverVars, hookVars,
                 profileVars>>

\* the rest of the handler once the fetch has settled
RelaySettle(settled) ==
    /\ vendorRes' = settled
    /\ relayRes' = Outcome(handleVendor(settled))
    /\ relayPc' = "done"
    /\ UNCHANGED <<API_KEY, req, vendorPayload, vendorCalls, nameVars, resolverVars,
                 hookVars, profileVars>>

\* the fetch rejects: the vendor cannot be reached
VendorRejects ==
    /\ relayPc = "fetch"
    /\ RelaySettle([kind |-> "rejected", message |-> "error sending request"])

\* the vendor answers with a status that is not 2xx
VendorRespondsNotOk ==
    /\ relayPc = "fetch"
    /\ \E status \in {s \in VendorStatuses : ~ok(s)}, body \in VendorErrorBodies :
          RelaySettle([kind |-> "fulfilled", status |-> status, body |-> body])

\* the vendor answers with a 2xx status
VendorRespondsOk ==
    /\ relayPc = "fetch"
    /\ \E status \in {s \in VendorStatuses : ok(s)}, body \in VendorOkBodies :
          RelaySettle([kind |-> "fulfilled", status |-> status, body |-> body])

RelayNext ==
    \/ RelayReceive
    \/ VendorRejects
    \/ VendorRespondsNotOk
    \/ VendorRespondsOk

SpecRelay ==
    RelayInit /\ [][RelayNext]_vars

-----------------------------------------------------------------------------
(* Conversions of JavaScript values that getDiseaseStats.ts relies on.      *)

\* a value that is not a number: Number(x) when x does not convert
NaN == [t |-> "NaN"]

\* the digit strings: the number a string of digits denotes
RECURSIVE digitsValue(_)
digitsValue(s) ==
    IF s = "" THEN 0
    ELSE 10 * digitsValue(SubSeq(s, 1, Len(s) - 1))
            + (CHOOSE d \in 0..9 : ToString(d) = Char(s, Len(s)))

IsDigits(s) ==
    s # "" /\ \A i \in 1..Len(s) : Char(s, i) \in DIGITS

\* Number(s) for a string: decimal literals of up to two decimals, with a sign
stringToNumber(s) ==
    LET u == trim(s)
        neg == u # "" /\ Head(u) = "-"
        a == IF neg THEN Tail(u) ELSE u
        parts == splitChars(a, {"."})
        sign == IF neg THEN 0 - 1 ELSE 1
    IN  IF u = "" THEN Num(0)
        ELSE IF Len(parts) = 1 /\ IsDigits(a)
        THEN Num(sign * 100 * digitsValue(a))
        ELSE IF Len(parts) = 2 /\ IsDigits(parts[1]) /\ IsDigits(parts[2])
                /\ Len(parts[2]) <= 2
        THEN Num(sign * (100 * digitsValue(parts[1])
                 + (IF Len(parts[2]) = 1 THEN 10 ELSE 1) * digitsValue(parts[2])))
        ELSE NaN

\* Number(x)
Number(x) ==
    CASE x.t = "number" -> x
      [] x.t = "null" -> Num(0)
      [] x.t = "string" -> stringToNumber(x.v)
      [] x.t = "array" /\ x.v = <<>> -> Num(0)
      [] OTHER -> NaN

\* String(n) for a number
numberToString(n) ==
    LET a == IF n < 0 THEN 0 - n ELSE n
        whole == ToString(a \div 100)
        frac == a % 100
    IN  (IF n < 0 THEN "-" ELSE "")
            \o (IF frac = 0 THEN whole
                ELSE IF frac % 10 = 0 THEN whole \o "." \o ToString(frac \div 10)
                ELSE IF frac < 10 THEN whole \o ".0" \o ToString(frac)
                ELSE whole \o "." \o ToString(frac))

\* String(x) for a value that is not an array
String(x) ==
    CASE x.t = "string" -> x.v
      [] x.t = "number" -> numberToString(x.v)
      [] x.t = "null" -> "null"
      [] x.t = "undefined" -> "undefined"
      [] OTHER -> "[object Object]"

\* a ?? b
Coalesce(a, b) ==
    IF IsNullish(a) THEN b ELSE a

\* the text of a string in JSON (the strings of the model need no escapes)
quote(s) ==
    "\"" \o s \o "\""

\* the names of the properties an object of the model can have, in the order
\* in which its text lists them
PROPERTY_ORDER ==
    <<"state", "region", "cases", "prevalence_rate", "age_group", "demographic",
      "data", "choices", "message", "content">>

\* JSON.stringify(x)
RECURSIVE stringify(_)
stringify(x) ==
    CASE x.t = "null" -> "null"
      [] x.t = "number" -> numberToString(x.v)
      [] x.t = "string" -> quote(x.v)
      [] x.t = "array" ->
            "[" \o join([i \in 1..Len(x.v) |-> stringify(x.v[i])], ",") \o "]"
      [] x.t = "object" ->
            LET present == SelectSeq(PROPERTY_ORDER, LAMBDA f : f \in DOMAIN x.v)
            IN  "{" \o join([i \in 1..Len(present) |->
                                quote(present[i]) \o ":" \o stringify(x.v[present[i]])],
                            ",") \o "}"

-----------------------------------------------------------------------------
(* src/lib/getDiseaseStats.ts: getDiseaseStats                              *)
(*                                                                          *)
(* retrieved_at is the reading t of the clock in place of its ISO text.     *)

\* Number.isFinite(v) && v >= 0 ? v : fallback, with v = Number(n)
sanitizeNumber(n, fallback) ==
    LET v == Number(n)
    IN  IF v.t = "number" /\ v.v >= 0 THEN v.v ELSE fallback

\* one element of the array as a DiseaseStateDatum; random holds the values
\* the two calls of Math.random lead to
toDatum(r, random) ==
    [state |-> String(Coalesce(Get(r, "state"),
                               Coalesce(Get(r, "region"), Str("Unknown")))),
     cases |-> sanitizeNumber(Get(r, "cases"), random.cases),
     prevalence_rate |-> sanitizeNumber(Get(r, "prevalence_rate"),
                                        random.prevalence_rate),
     age_group |-> String(Coalesce(Get(r, "age_group"),
                                   Coalesce(Get(r, "demographic"), Str("20-40"))))]

\* normalizeArray without its filter
keepEveryState(r) ==
    TRUE

\* r => r.state.toLowerCase() !== "unknown"
keepKnownState(r) ==
    toLowerCase(r.state) # "unknown"

\* what normalizeArray throws on raw, "" when it returns
normalizeArrayError(raw) ==
    IF raw.t = "array" /\ \E i \in 1..Len(raw.v) : IsNullish(raw.v[i])
    THEN "Cannot read properties of null (reading 'state')"
    ELSE ""

normalizeArray(raw, condition, source, randoms, t) ==
    IF raw.t # "array"
    THEN [source |-> source, condition |-> condition, data |-> <<>>,
          retrieved_at |-> t]
    ELSE [source |-> source, condition |-> condition,
          data |-> SelectSeq([i \in 1..Len(raw.v) |-> toDatum(raw.v[i], randoms[i])],
                             keepKnownState),
          retrieved_at |-> t]

\* the two tables unified: the six rows under either tag
mockStatsOneTable(condition, variant, t) ==
    [source |-> IF variant = 1 THEN "mock" ELSE "error",
     condition |-> condition,
     data |-> [i \in 1..6 |->
                 [state |-> <<"Maharashtra", "Tamil Nadu", "Uttar Pradesh",
                              "Kerala", "Delhi", "Karnataka">>[i],
                  cases |-> 3000000, prevalence_rate |-> 400,
                  age_group |-> "20-40"]],
     retrieved_at |-> t]

mockStats(condition, variant, t) ==
    LET base ==
            <<[state |-> "Maharashtra", cases |-> 4200000, prevalence_rate |-> 450,
               age_group |-> "20-40"],
              [state |-> "Tamil Nadu", cases |-> 3200000, prevalence_rate |-> 380,
               age_group |-> "15-35"],
              [state |-> "Uttar Pradesh", cases |-> 5000000, prevalence_rate |-> 510,
               age_group |-> "18-45"],
              [state |-> "Kerala", cases |-> 2700000, prevalence_rate |-> 330,
               age_group |-> "25-50"],
              [state |-> "Delhi", cases |-> 2100000, prevalence_rate |-> 410,
               age_group |-> "18-40"],
              [state |-> "Karnataka", cases |-> 3000000, prevalence_rate |-> 370,
               age_group |-> "20-45"]>>
        alt ==
            <<[state |-> "Maharashtra", cases |-> 4100000, prevalence_rate |-> 420,
               age_group |-> "20-40"],
              [state |-> "Tamil Nadu", cases |-> 2900000, prevalence_rate |-> 350,
               age_group |-> "15-35"],
              [state |-> "Uttar Pradesh", cases |-> 4800000, prevalence_rate |-> 490,
               age_group |-> "18-45"],
              [state |-> "Kerala", cases |-> 2500000, prevalence_rate |-> 310,
               age_group |-> "25-50"]>>
    IN  [source |-> IF variant = 1 THEN "mock" ELSE "error",
         condition |-> condition,
         data |-> IF variant = 1 THEN base ELSE alt,
         retrieved_at |-> t]

\* the key without toLowerCase() and trim()
cacheKeyAsGiven(condition) ==
    condition

\* const key = condition.toLowerCase().trim()
cacheKey(condition) ==
    trim(toLowerCase(condition))

\* x?.[0]
First(x) ==
    IF IsNullish(x) THEN Undefined
    ELSE IF x.t = "array" THEN (IF x.v = <<>> THEN Undefined ELSE x.v[1])
    ELSE IF x.t = "string" THEN (IF x.v = "" THEN Undefined ELSE Str(Head(x.v)))
    ELSE Get(x, "0")

\* x?.f
GetOptional(x, f) ==
    IF IsNullish(x) THEN Undefined ELSE Get(x, f)

\* json?.choices?.[0]?.message?.content
getContent(data) ==
    GetOptional(GetOptional(First(GetOptional(data, "choices")), "message"), "content")

\* s.replace(/pattern/gi, replacement) for a pattern that is a plain text
RECURSIVE replaceAll(_, _, _)
replaceAll(s, pattern, replacement) ==
    LET n == Len(pattern)
        p == toLowerCase(pattern)
        found == {i \in 1..(Len(s) - n + 1) :
                     /\ toLowerChar(Char(s, i)) = Head(p)
                     /\ toLowerCase(SubSeq(s, i, i + n - 1)) = p}
    IN  IF found = {} THEN s
        ELSE SubSeq(s, 1, Min(found) - 1) \o replacement
                \o replaceAll(SubSeq(s, Min(found) + n, Len(s)), pattern, replacement)

\* the code fence of markdown, three backticks: a string of the module cannot
\* hold a backtick, and "~" is written for it
FENCE == "~~~"

\* rawText.replace(/```json/gi, "```").replace(/```/g, "").trim()
stripFences(rawText) ==
    trim(replaceAll(replaceAll(rawText, FENCE \o "json", FENCE), FENCE, ""))

\* cleaned.match(/\[[\s\S]*\]/): the text from the first "[" to the last "]",
\* "" when there is no match
matchArray(cleaned) ==
    LET opens == {i \in 1..Len(cleaned) : Char(cleaned, i) = "["}
        closes == {j \in 1..Len(cleaned) : Char(cleaned, j) = "]"}
    IN  IF opens # {} /\ closes # {} /\ Min(opens) < Max(closes)
        THEN SubSeq(cleaned, Min(opens), Max(closes))
        ELSE ""

-----------------------------------------------------------------------------
(* The replies of the generative API. JSON.parse is the inverse of          *)
(* JSON.stringify on the values a reply of the model can carry, and throws  *)
(* a SyntaxError on every other text.                                       *)

MaxRows == 2

\* a row whose numbers do not pass sanitizeNumber
GoaRow ==
    Obj(("state" :> Str("Goa")) @@ ("cases" :> Num(0 - 500))
           @@ ("prevalence_rate" :> Str("abc")) @@ ("demographic" :> Str("10-20")))

StatsRows ==
    {Null,
     Num(500),
     EmptyObject,
     Obj(("state" :> Str("Kerala")) @@ ("cases" :> Num(2700000))
            @@ ("prevalence_rate" :> Num(330)) @@ ("age_group" :> Str("25-50"))),
     Obj(("state" :> Str("Unknown")) @@ ("cases" :> Num(100000))
            @@ ("prevalence_rate" :> Num(200)) @@ ("age_group" :> Str("20-40"))),
     Obj(("region" :> Str("UNKNOWN")) @@ ("cases" :> Num(100000))),
     GoaRow,
     Obj(("state" :> Null) @@ ("region" :> Str("Punjab")) @@ ("cases" :> Num(350))
            @@ ("prevalence_rate" :> Str("2.5")))}

StatsArrays ==
    {Arr(a) : a \in UNION {[1..n -> StatsRows] : n \in 0..MaxRows}}

JsonValues ==
    StatsArrays \cup {Null, Num(0), EmptyObject, Obj("data" :> Arr(<<>>))}

\* the values with their texts
JsonTexts ==
    {<<stringify(v), v>> : v \in JsonValues}

\* the value of each text
JsonValueOf ==
    [text \in {p[1] : p \in JsonTexts} |-> (CHOOSE p \in JsonTexts : p[1] = text)[2]]

\* whether JSON.parse(text) returns: white space around the text is allowed
IsJson(text) ==
    trim(text) \in DOMAIN JsonValueOf

\* JSON.parse(text), for a text on which it returns
JSONparse(text) ==
    JsonValueOf[trim(text)]

\* the values the two calls of Math.random lead to, at the ends of their ranges
Randoms ==
    {[cases |-> 500000, prevalence_rate |-> 100],
     [cases |-> 4499900, prevalence_rate |-> 600]}

KeralaAndUnknown ==
    Arr(<<Obj(("state" :> Str("Kerala")) @@ ("cases" :> Num(2700000))
                 @@ ("prevalence_rate" :> Num(330)) @@ ("age_group" :> Str("25-50"))),
          Obj(("state" :> Str("Unknown")) @@ ("cases" :> Num(100000))
                 @@ ("prevalence_rate" :> Num(200)) @@ ("age_group" :> Str("20-40")))>>)

\* the texts of choices[0].message.content that wrap a JSON text
StatsWrappedTexts ==
    {FENCE \o "json\n" \o stringify(KeralaAndUnknown) \o "\n" \o FENCE,
     "Here is the data: " \o stringify(KeralaAndUnknown) \o " I hope it helps.",
     "Data [2024]: " \o stringify(KeralaAndUnknown),
     "As of [2024, no data] is available.",
     "I cannot help with that.",
     ""}

\* choices[0].message.content of a reply to getDiseaseStats
StatsContents ==
    {Str(p[1]) : p \in JsonTexts}
        \cup {Str(s) : s \in StatsWrappedTexts}
        \cup {Undefined, Null, Num(500)}

\* the body of a reply whose choices[0].message.content is content
ChatCompletion(content) ==
    Obj("choices" :> Arr(<<Obj("message" :> Obj("content" :> content))>>))

\* bodies that are JSON and are no chat completion
OtherBodies ==
    {Null, EmptyObject, Obj("choices" :> Arr(<<>>))}

\* the bullet U+2022: a string of the module cannot hold it, and "@" is
\* written for it
BULLET == "@"

\* the bold template of the prompt, the same with plain labels, the labels
\* with the colon behind the closing asterisks and a bullet list, and replies
\* that are no template

TemplateReply ==
    "**Disease Name:** Eczema\n**Description:** Itchy, inflamed skin.\n"
        \o "**Common Symptoms:** itching, redness\n"
        \o "**Causes:** allergens, dry skin\n"
        \o "**Prevention & Treatment:** Moisturize daily: see a doctor."

PlainReply ==
    "Disease Name: Eczema\r\nDescription: Itchy, inflamed skin.\r\n\r\n"
        \o "Common Symptoms: itching, redness\r\n"
        \o "Causes: allergens, dry skin\r\n"
        \o "Prevention & Treatment: Moisturize daily: see a doctor."

OuterColonReply ==
    "**disease name**: Eczema\n**Common Symptoms**: itching @ redness,, \n"
        \o "**Causes**: \n"

\* one plain label, and white space around the text
PaddedReply ==
    "\n Description: Itchy, inflamed skin. \n"

InfoTexts ==
    {TemplateReply, PlainReply, OuterColonReply, PaddedReply,
     "Not a skin-related condition.", "  Not a skin-related condition.\n",
     "I cannot help with that.", "", " \n "}

\* choices[0].message.content of a reply to getSkinDiseaseInfo
InfoContents ==
    {Str(s) : s \in InfoTexts} \cup {Undefined, Null, Num(500)}

-----------------------------------------------------------------------------
(* getDiseaseStats after its requests, and its catch                        *)

\* the try block from `const json = await res.json()` to `if (!parsed)`: it
\* returns the value of parsed, or throws
parseReply(body) ==
    LET rawText == Coalesce(getContent(body), Str(""))
        cleaned == stripFences(rawText.v)
        arrMatch == matchArray(cleaned)
    IN  IF rawText.t # "string"
        THEN Throw("rawText.replace is not a function")
        ELSE IF IsJson(cleaned) THEN Return(JSONparse(cleaned))
        ELSE IF arrMatch # "" /\ IsJson(arrMatch) THEN Return(JSONparse(arrMatch))
        ELSE Return(Null)

\* the try block with `if (!parsed) throw ...` for its return of mockStats
statsFromParsedThrowing(parsed, condition, randoms, t) ==
    IF parsed.type = "throw"
    THEN parsed
    ELSE IF ~Truthy(parsed.value)
    THEN Throw("No JSON array in the reply")
    ELSE IF normalizeArrayError(parsed.value) # ""
    THEN Throw(normalizeArrayError(parsed.value))
    ELSE Return(normalizeArray(parsed.value, condition, "openrouter", randoms, t))

\* parseReply of each body of the model
parsedReplies ==
    [body \in OtherBodies \cup {ChatCompletion(c) : c \in StatsContents} |->
        parseReply(body)]

\* the try block from `if (!parsed)` on
statsFromParsed(parsed, condition, randoms, t) ==
    IF parsed.type = "throw"
    THEN parsed
    ELSE IF ~Truthy(parsed.value)
    THEN Return(mockStats(condition, 1, t))
    ELSE IF normalizeArrayError(parsed.value) # ""
    THEN Throw(normalizeArrayError(parsed.value))
    ELSE Return(normalizeArray(parsed.value, condition, "openrouter", randoms, t))

\* the calls of Math.random: two for each element of the array
RandomDraws(parsed) ==
    IF parsed.type = "return" /\ parsed.value.t = "array"
    THEN [1..Len(parsed.value.v) -> Randoms]
    ELSE {<<>>}

\* getDiseaseStats without its catch
statsRethrow(completion, condition, t) ==
    completion

\* catch (err) { ...; const fallback = mockStats(condition, 2); ... }
statsCatch(completion, condition, t) ==
    IF completion.type = "throw"
    THEN Return(mockStats(condition, 2, t))
    ELSE completion

-----------------------------------------------------------------------------
(* src/lib/getDiseaseStats.ts: getSkinDiseaseInfo                           *)

FALLBACK_INFO(condition, t) ==
    [condition |-> condition,
     description |->
        "Structured educational information is not available for this label. "
            \o "This may be an internal model class or a rare condition.",
     symptoms |-> <<>>,
     causes |-> <<>>,
     prevention_treatment |->
        "Consult a licensed dermatologist for personalized evaluation. "
            \o "Maintain general skin hygiene and avoid unverified self-treatment.",
     source |-> "fallback",
     retrieved_at |-> t]

\* text.split(/\r?\n/).map(l => l.trim()).filter(Boolean): the \r of a line
\* end that is left by the split at \n is removed by the trim
toLines(text) ==
    LET parts == splitChars(text, {"\n"})
    IN  filterBoolean([i \in 1..Len(parts) |-> trim(parts[i])])

\* lines.find(l => l.toLowerCase().startsWith(label.toLowerCase())) ?? ""
extract(lines, lineLabel) ==
    LET found == {i \in 1..Len(lines) :
                     startsWith(toLowerCase(lines[i]), toLowerCase(lineLabel))}
    IN  IF found = {} THEN ""
        ELSE lines[CHOOSE i \in found : \A j \in found : i <= j]

\* extract("**Label**") || extract("Label")
extractEither(lines, lineLabel) ==
    IF extract(lines, "**" \o lineLabel \o "**") # ""
    THEN extract(lines, "**" \o lineLabel \o "**")
    ELSE extract(lines, lineLabel)

\* line.split(":").slice(1).join(":").trim()
getValueAfterColon(line) ==
    trim(join(Tail(splitChars(line, {":"})), ":"))

\* value.split(/[,\u2022]/).map(s => s.trim()).filter(Boolean), [] for no value
toItems(value) ==
    LET parts == splitChars(value, {",", BULLET})
    IN  IF value = "" THEN <<>>
        ELSE filterBoolean([i \in 1..Len(parts) |-> trim(parts[i])])

\* the values that parseModelMarkdown reads from the lines of the text
parseLines(text) ==
    LET lines == toLines(text)
    IN  [nameValue |-> getValueAfterColon(extractEither(lines, "Disease Name")),
         descValue |-> getValueAfterColon(extractEither(lines, "Description")),
         symValue |-> getValueAfterColon(extractEither(lines, "Common Symptoms")),
         causeValue |-> getValueAfterColon(extractEither(lines, "Causes")),
         treatValue |->
            getValueAfterColon(extractEither(lines, "Prevention & Treatment"))]

\* the reply to the calls of Spec
InfoReply == "Description: Itchy, inflamed skin."

\* parseLines of each reply of the model, as the code receives it: trimmed
parsedLines ==
    [text \in {trim(s) : s \in InfoTexts \cup {InfoReply}} |-> parseLines(text)]

\* parseModelMarkdown with the fallback for the whole record: a reply without
\* a description or without a treatment gives the record of FALLBACK_INFO
parseModelMarkdownFullFallback(text, condition, t) ==
    IF parsedLines[text].descValue = "" \/ parsedLines[text].treatValue = ""
    THEN FALLBACK_INFO(condition, t)
    ELSE [condition |-> parsedLines[text].nameValue,
          description |-> parsedLines[text].descValue,
          symptoms |-> toItems(parsedLines[text].symValue),
          causes |-> toItems(parsedLines[text].causeValue),
          prevention_treatment |-> parsedLines[text].treatValue,
          source |-> "openrouter",
          raw |-> text,
          retrieved_at |-> t]

parseModelMarkdown(text, condition, t) ==
    LET nameValue == parsedLines[text].nameValue
        descValue == parsedLines[text].descValue
        symValue == parsedLines[text].symValue
        causeValue == parsedLines[text].causeValue
        treatValue == parsedLines[text].treatValue
    IN  [condition |-> IF nameValue # "" THEN nameValue ELSE condition,
         description |-> IF descValue # "" THEN descValue
                         ELSE FALLBACK_INFO(condition, t).description,
         symptoms |-> toItems(symValue),
         causes |-> toItems(causeValue),
         prevention_treatment |->
            IF treatValue # "" THEN treatValue
            ELSE FALLBACK_INFO(condition, t).prevention_treatment,
         source |-> "openrouter",
         raw |-> text,
         retrieved_at |-> t]

\* the try block from `const data = await response.json()` on
infoFromJson(data, condition, t) ==
    LET content == getContent(data)
        text == IF IsNullish(content) THEN "" ELSE trim(content.v)
    IN  IF ~IsNullish(content) /\ content.t # "string"
        THEN Throw("data?.choices?.[0]?.message?.content?.trim is not a function")
        ELSE IF text = "" \/ text = "Not a skin-related condition."
        THEN Return(FALLBACK_INFO(condition, t))
        ELSE Return(parseModelMarkdown(text, condition, t))

\* the catch without its `source: "error"`
infoCatchUntagged(completion, condition, t) ==
    IF completion.type = "throw"
    THEN Return(FALLBACK_INFO(condition, t))
    ELSE completion

\* catch (err) { ...; const fb = { ...FALLBACK_INFO(condition), source: "error" } }
infoCatch(completion, condition, t) ==
    IF completion.type = "throw"
    THEN Return([FALLBACK_INFO(condition, t) EXCEPT !.source = "error"])
    ELSE completion

-----------------------------------------------------------------------------
(* The calls of the two resolvers. A call is a record: the function, its    *)
(* argument, its key, where it is suspended ("fetch": at the await of fetch, *)
(* "json": at the await of the body, "done": settled), its requests,        *)
(* what its request was answered with, how its promise settled and with     *)
(* what, and the clock at its start and its end. The clock advances when a  *)
(* call starts and when a call settles, so that no two of these events, and *)
(* no two records, have the same reading.                                   *)

MaxCalls == 2

Conditions == {"Eczema", " eczema ", "Psoriasis"}

\* the resolvers without their test of the key
noKeyNever(key) ==
    FALSE

\* !OPENROUTER_API_KEY
noKey(key) ==
    key = ""

\* a cache that keeps the generated records only
cacheSetGeneratedOnly(cache, key, record) ==
    IF record.source = "openrouter" THEN (key :> record) @@ cache ELSE cache

\* a cache that keeps the first record of a key: if (!cache.has(key)) ...
cacheSetIfAbsent(cache, key, record) ==
    IF key \in DOMAIN cache THEN cache ELSE (key :> record) @@ cache

\* a cache that does not keep the records of the catch
cacheSetUnlessError(cache, key, record) ==
    IF record.source = "error" THEN cache ELSE (key :> record) @@ cache

\* a cache of one entry: the Map is cleared before the set
cacheSetAlone(cache, key, record) ==
    key :> record

\* cache.set(key, record)
cacheSet(cache, key, record) ==
    (key :> record) @@ cache

NewCall(fn, condition, t) ==
    [fn |-> fn, condition |-> condition, key |-> cacheKey(condition),
     pc |-> "fetch", requests |-> 0,
     response |-> Undefined, settled |-> "pending", value |-> Undefined,
     startedAt |-> t, finishedAt |-> 0]

\* the call with its promise settled by the completion
Settled(call, completion, t) ==
    [call EXCEPT !.pc = "done",
                 !.settled = IF completion.type = "throw" THEN "rejected"
                             ELSE "fulfilled",
                 !.value = IF completion.type = "throw" THEN Str(completion.message)
                           ELSE completion.value,
                 !.finishedAt = t]

ResolverInit ==
    /\ OPENROUTER_API_KEY \in {"", "sk-or-v1"}
    /\ statsCache = <<>>
    /\ infoCache = <<>>
    /\ calls = <<>>
    /\ now = 1

\* getSkinDiseaseInfo(condition), to its return or to its fetch, whoever calls
CallGetSkinDiseaseInfo(condition) ==
    LET call == NewCall("info", condition, now)
        key == call.key
        fb == FALLBACK_INFO(condition, now)
    IN  /\ IF key \in DOMAIN infoCache
           THEN /\ calls' = Append(calls, Settled(call, Return(infoCache[key]), now))
                /\ UNCHANGED infoCache
           ELSE IF noKey(OPENROUTER_API_KEY)
           THEN /\ calls' = Append(calls, Settled(call, Return(fb), now))
                /\ infoCache' = cacheSet(infoCache, key, fb)
           ELSE /\ calls' = Append(calls, [call EXCEPT !.requests = 1])
                /\ UNCHANGED infoCache
        /\ now' = now + 1
        /\ UNCHANGED <<OPENROUTER_API_KEY, statsCache, nameVars, relayVars,
                       profileVars>>

\* a call of getSkinDiseaseInfo(condition) from outside the hook
GetSkinDiseaseInfo(condition) ==
    /\ CallGetSkinDiseaseInfo(condition)
    /\ UNCHANGED hookVars

\* getDiseaseStats(condition), to its return or to its fetch
GetDiseaseStats(condition) ==
    LET call == NewCall("stats", condition, now)
        key == call.key
        m == mockStats(condition, 1, now)
    IN  /\ IF key \in DOMAIN statsCache
           THEN /\ calls' = Append(calls, Settled(call, Return(statsCache[key]), now))
                /\ UNCHANGED statsCache
           ELSE IF noKey(OPENROUTER_API_KEY)
           THEN /\ calls' = Append(calls, Settled(call, Return(m), now))
                /\ statsCache' = cacheSet(statsCache, key, m)
           ELSE /\ calls' = Append(calls, [call EXCEPT !.requests = 1])
                /\ UNCHANGED statsCache
        /\ now' = now + 1
        /\ UNCHANGED <<OPENROUTER_API_KEY, infoCache, nameVars, relayVars,
                       hookVars, profileVars>>

\* what a request is answered with: fetch rejects, a status that is not 2xx,
\* a 2xx response whose body is no JSON, a 2xx response with a JSON body
FetchRejected == [kind |-> "rejected"]

NotOk == [kind |-> "not ok"]

NoJson == [kind |-> "no json"]

Json(body) == [kind |-> "json", body |-> body]

\* call i is suspended at pc in the function fn
At(i, fn, pc) ==
    /\ i \in 1..Len(calls)
    /\ calls[i].fn = fn
    /\ calls[i].pc = pc

\* getSkinDiseaseInfo returns or throws: its cache.set and the settling of
\* its promise
InfoSettle(i, response, completion) ==
    /\ calls' = [calls EXCEPT
                    ![i] = Settled([@ EXCEPT !.response = response], completion, now)]
    /\ infoCache' = IF completion.type = "return"
                    THEN cacheSet(infoCache, calls[i].key, completion.value)
                    ELSE infoCache
    /\ now' = now + 1
    /\ UNCHANGED <<OPENROUTER_API_KEY, statsCache, nameVars, relayVars,
                   hookVars, profileVars>>

StatsSettle(i, response, completion) ==
    /\ calls' = [calls EXCEPT
                    ![i] = Settled([@ EXCEPT !.response = response], completion, now)]
    /\ statsCache' = IF completion.type = "return"
                     THEN cacheSet(statsCache, calls[i].key, completion.value)
                     ELSE statsCache
    /\ now' = now + 1
    /\ UNCHANGED <<OPENROUTER_API_KEY, infoCache, nameVars, relayVars,
                   hookVars, profileVars>>

\* the await of a fetch ends with a 2xx response: on to the await of its body
AwaitBody(i) ==
    /\ calls' = [calls EXCEPT ![i].pc = "json"]
    /\ UNCHANGED <<OPENROUTER_API_KEY, statsCache, infoCache, now, nameVars,
                   relayVars, hookVars, profileVars>>

\* fetch rejects (no network)
InfoFetchRejects(i) ==
    /\ At(i, "info", "fetch")
    /\ InfoSettle(i, FetchRejected,
                  infoCatch(Throw("Failed to fetch"), calls[i].condition, now))

\* !response.ok
InfoFetchNotOk(i) ==
    /\ At(i, "info", "fetch")
    /\ InfoSettle(i, NotOk,
                  infoCatch(Return(FALLBACK_INFO(calls[i].condition, now)),
                            calls[i].condition, now))

InfoFetchOk(i) ==
    /\ At(i, "info", "fetch")
    /\ AwaitBody(i)

\* response.json() rejects: the body is no JSON
InfoJsonRejects(i) ==
    /\ At(i, "info", "json")
    /\ InfoSettle(i, NoJson,
                  infoCatch(Throw("Unexpected token '<' is not valid JSON"),
                            calls[i].condition, now))

InfoJsonResolves(i, data) ==
    /\ At(i, "info", "json")
    /\ InfoSettle(i, Json(data),
                  infoCatch(infoFromJson(data, calls[i].condition, now),
                            calls[i].condition, now))

StatsFetchRejects(i) ==
    /\ At(i, "stats", "fetch")
    /\ StatsSettle(i, FetchRejected,
                   statsCatch(Throw("Failed to fetch"), calls[i].condition, now))

\* !res.ok
StatsFetchNotOk(i) ==
    /\ At(i, "stats", "fetch")
    /\ StatsSettle(i, NotOk,
                   statsCatch(Return(mockStats(calls[i].condition, 1, now)),
                              calls[i].condition, now))

StatsFetchOk(i) ==
    /\ At(i, "stats", "fetch")
    /\ AwaitBody(i)

StatsJsonRejects(i) ==
    /\ At(i, "stats", "json")
    /\ StatsSettle(i, NoJson,
                   statsCatch(Throw("Unexpected token '<' is not valid JSON"),
                              calls[i].condition, now))

StatsJsonResolves(i, body) ==
    /\ At(i, "stats", "json")
    /\ LET parsed == parsedReplies[body]
       IN  \E randoms \in RandomDraws(parsed) :
              StatsSettle(i, Json(body),
                          statsCatch(statsFromParsed(parsed, calls[i].condition,
                                                     randoms, now),
                                     calls[i].condition, now))

-----------------------------------------------------------------------------
(* Spec: up to MaxCalls calls of the resolvers, in any interleaving, the    *)
(* API answering with one of a few bodies.                                  *)

InfoBodies ==
    {ChatCompletion(Str(InfoReply))}

\* the numbers of the row are drawn with Math.random
StatsBodies ==
    {ChatCompletion(Str(stringify(Arr(<<GoaRow>>))))}

Init ==
    /\ ResolverInit
    /\ RelayIdle
    /\ NameIdle
    /\ HookIdle
    /\ ProfileIdle

StartInfo ==
    /\ Len(calls) < MaxCalls
    /\ \E c \in Conditions : GetSkinDiseaseInfo(c)

StartStats ==
    /\ Len(calls) < MaxCalls
    /\ \E c \in Conditions : GetDiseaseStats(c)

Next ==
    \/ StartInfo
    \/ StartStats
    \/ \E i \in 1..Len(calls) : InfoFetchRejects(i)
    \/ \E i \in 1..Len(calls) : InfoFetchNotOk(i)
    \/ \E i \in 1..Len(calls) : InfoFetchOk(i)
    \/ \E i \in 1..Len(calls) : InfoJsonRejects(i)
    \/ \E i \in 1..Len(calls), data \in InfoBodies : InfoJsonResolves(i, data)
    \/ \E i \in 1..Len(calls) : StatsFetchRejects(i)
    \/ \E i \in 1..Len(calls) : StatsFetchNotOk(i)
    \/ \E i \in 1..Len(calls) : StatsFetchOk(i)
    \/ \E i \in 1..Len(calls) : StatsJsonRejects(i)
    \/ \E i \in 1..Len(calls), body \in StatsBodies : StatsJsonResolves(i, body)

Spec ==
    Init /\ [][Next]_vars

-----------------------------------------------------------------------------
(* SpecSameKey: up to MaxSameKeyCalls calls of one of the resolvers for one *)
(* condition, in any interleaving, with the credential configured.          *)

MaxSameKeyCalls == 3

SameKeyInit ==
    /\ Init
    /\ OPENROUTER_API_KEY # ""

\* the page asks for the information on "Eczema" once more
SameKeyInfo ==
    /\ Len(calls) < MaxSameKeyCalls
    /\ \A i \in 1..Len(calls) : calls[i].fn = "info"
    /\ GetSkinDiseaseInfo("Eczema")

\* the page asks for the statistics on "Eczema" once more
SameKeyStats ==
    /\ Len(calls) < MaxSameKeyCalls
    /\ \A i \in 1..Len(calls) : calls[i].fn = "stats"
    /\ GetDiseaseStats("Eczema")

SameKeyNext ==
    \/ SameKeyInfo
    \/ SameKeyStats
    \/ \E i \in 1..Len(calls) : InfoFetchRejects(i)
    \/ \E i \in 1..Len(calls) : InfoFetchNotOk(i)
    \/ \E i \in 1..Len(calls) : InfoFetchOk(i)
    \/ \E i \in 1..Len(calls) : InfoJsonRejects(i)
    \/ \E i \in 1..Len(calls), data \in InfoBodies : InfoJsonResolves(i, data)
    \/ \E i \in 1..Len(calls) : StatsFetchRejects(i)
    \/ \E i \in 1..Len(calls) : StatsFetchNotOk(i)
    \/ \E i \in 1..Len(calls) : StatsFetchOk(i)
    \/ \E i \in 1..Len(calls) : StatsJsonRejects(i)
    \/ \E i \in 1..Len(calls), body \in StatsBodies : StatsJsonResolves(i, body)

SpecSameKey ==
    SameKeyInit /\ [][SameKeyNext]_vars

-----------------------------------------------------------------------------
(* SpecReplies: one call of a resolver on empty caches, the API answering   *)
(* with any body of the model.                                              *)

FirstInfo ==
    /\ calls = <<>>
    /\ \E c \in Conditions : GetSkinDiseaseInfo(c)

FirstStats ==
    /\ calls = <<>>
    /\ \E c \in Conditions : GetDiseaseStats(c)

RepliesNext ==
    \/ FirstInfo
    \/ FirstStats
    \/ InfoFetchRejects(1)
    \/ InfoFetchNotOk(1)
    \/ InfoFetchOk(1)
    \/ InfoJsonRejects(1)
    \/ \E data \in OtherBodies \cup {ChatCompletion(c) : c \in InfoContents} :
          InfoJsonResolves(1, data)
    \/ StatsFetchRejects(1)
    \/ StatsFetchNotOk(1)
    \/ StatsFetchOk(1)
    \/ StatsJsonRejects(1)
    \/ \E body \in OtherBodies \cup {ChatCompletion(c) : c \in StatsContents} :
          StatsJsonResolves(1, body)

SpecReplies ==
    Init /\ [][RepliesNext]_vars

-----------------------------------------------------------------------------
(* src/hooks/useDiseaseInsights.ts: one component that uses the hook. A     *)
(* render with a new argument runs the cleanup of the previous effect and   *)
(* then the effect; the effect calls getSkinDiseaseInfo, whose promise the   *)
(* function run awaits. A run of the effect is a record: its condition, its  *)
(* flag `cancelled`, the index of its call in calls, and where run is        *)
(* ("await": at the await of the call, "done": returned). The API either    *)
(* does not answer (fetch rejects) or answers with the reply of Spec.        *)

MaxRenders == 3

\* the values of the argument `condition?: string | null`
ConditionProps ==
    {Null, Str(""), Str("Eczema"), Str("Psoriasis")}

\* setState(prev => ({ ...prev, loadingInfo: true, errorInfo: null }))
setLoading(prev) ==
    [prev EXCEPT !.loadingInfo = TRUE, !.errorInfo = Null]

\* run after its await, without the two tests of `cancelled`
afterAwaitUnguarded(prev, cancelled, call) ==
    IF call.settled = "fulfilled"
    THEN [info |-> call.value, loadingInfo |-> FALSE, errorInfo |-> Null]
    ELSE [info |-> Null, loadingInfo |-> FALSE,
          errorInfo |-> Str("Failed to load disease info")]

\* run after its await: the state that its try or its catch leaves
afterAwait(prev, cancelled, call) ==
    IF cancelled
    THEN prev
    ELSE IF call.settled = "fulfilled"
    THEN [info |-> call.value, loadingInfo |-> FALSE, errorInfo |-> Null]
    ELSE [info |-> Null, loadingInfo |-> FALSE,
          errorInfo |-> Str("Failed to load disease info")]

\* return () => { cancelled = true; }: the cleanup of the effect of the last
\* render, which returned one when its condition was truthy
cleanup ==
    IF mounted /\ Truthy(conditionProp)
    THEN [effects EXCEPT ![Len(effects)].cancelled = TRUE]
    ELSE effects

\* the effect with the argument c, after the runs effs: `if (!condition)
\* return;`, else run() to its await
Effect(c, effs) ==
    IF ~Truthy(c)
    THEN /\ effects' = effs
         /\ UNCHANGED <<insights, resolverVars, nameVars, relayVars, profileVars>>
    ELSE /\ insights' = setLoading(insights)
         /\ CallGetSkinDiseaseInfo(c.v)
         /\ effects' = Append(effs, [condition |-> c.v, cancelled |-> FALSE,
                                     call |-> Len(calls) + 1, pc |-> "await"])

\* the component mounts
Mount ==
    /\ ~mounted
    /\ renders = 0
    /\ \E c \in ConditionProps :
          /\ conditionProp' = c
          /\ Effect(c, effects)
    /\ mounted' = TRUE
    /\ renders' = 1

\* the component renders with another argument
Rerender ==
    /\ mounted
    /\ renders < MaxRenders
    /\ \E c \in ConditionProps \ {conditionProp} :
          /\ conditionProp' = c
          /\ Effect(c, cleanup)
    /\ renders' = renders + 1
    /\ UNCHANGED mounted

\* the component unmounts
Unmount ==
    /\ mounted
    /\ mounted' = FALSE
    /\ effects' = cleanup
    /\ UNCHANGED <<conditionProp, insights, renders, resolverVars, nameVars,
                   relayVars, profileVars>>

\* the promise of the call of run e has settled: run goes on after its await
Resume(e) ==
    /\ effects[e].pc = "await"
    /\ calls[effects[e].call].pc = "done"
    /\ insights' = afterAwait(insights, effects[e].cancelled,
                              calls[effects[e].call])
    /\ effects' = [effects EXCEPT ![e].pc = "done"]
    /\ UNCHANGED <<mounted, conditionProp, renders, resolverVars, nameVars,
                   relayVars, profileVars>>

HookNext ==
    \/ Mount
    \/ Rerender
    \/ Unmount
    \/ \E e \in 1..Len(effects) : Resume(e)
    \/ \E i \in 1..Len(calls) : InfoFetchRejects(i)
    \/ \E i \in 1..Len(calls) : InfoFetchOk(i)
    \/ \E i \in 1..Len(calls), data \in InfoBodies : InfoJsonResolves(i, data)

SpecHook ==
    Init /\ [][HookNext]_vars

-----------------------------------------------------------------------------
(* The rules of profile completeness: Auth (src/App.tsx and its updated     *)
(* copy, unnamed/part_004), Onboarding (unnamed/part_013) and ProfileGuard   *)
(* (unnamed/part_001), each applied to one row of the table profiles.        *)

\* typeof x === "number": NaN is a number
typeofNumber(x) ==
    x.t \in {"number", "NaN"}

\* !!(p.full_name && p.full_name.trim().length >= 2)
hasName(p) ==
    /\ Truthy(Get(p, "full_name"))
    /\ Len(trim(Get(p, "full_name").v)) >= 2

\* typeof p.age === "number" && p.age >= 1 && p.age <= 120: a comparison
\* with NaN is false
hasAge(p) ==
    /\ typeofNumber(Get(p, "age"))
    /\ Get(p, "age") # NaN
    /\ Get(p, "age").v >= 100
    /\ Get(p, "age").v <= 12000

\* typeof p.age === "number" && !Number.isNaN(p.age) && p.age >= 1 && ...
hasAgeNotNaN(p) ==
    /\ typeofNumber(Get(p, "age"))
    /\ Get(p, "age") # NaN
    /\ hasAge(p)

\* !!(p.phone && p.phone.trim().length >= 6)
hasPhone(p) ==
    /\ Truthy(Get(p, "phone"))
    /\ Len(trim(Get(p, "phone").v)) >= 6

\* Auth, src/App.tsx: "must match onboarding & guards"
isProfileCompleteAuth(p) ==
    IF ~Truthy(p) THEN FALSE
    ELSE hasName(p) /\ hasAgeNotNaN(p) /\ hasPhone(p)
            /\ Truthy(Get(p, "skin_type"))

\* Auth, updated: sex is required and skin_type is optional
isProfileCompleteAuthUpdated(p) ==
    IF ~Truthy(p) THEN FALSE
    ELSE hasName(p) /\ hasAgeNotNaN(p) /\ hasPhone(p) /\ Truthy(Get(p, "sex"))

\* Onboarding: isComplete(p)
isComplete(p) ==
    hasName(p) /\ hasAge(p) /\ hasPhone(p) /\ Truthy(Get(p, "skin_type"))

\* ProfileGuard: isProfileComplete(p)
isProfileCompleteGuard(p) ==
    IF ~Truthy(p) THEN FALSE
    ELSE hasName(p) /\ hasAge(p) /\ hasPhone(p) /\ Truthy(Get(p, "sex"))

\* the rows: names and phones around their least lengths, ages around the
\* ends of the range and ages that are no numbers, sex and skin type present
\* or not
ProfileRows ==
    {Obj(("full_name" :> n) @@ ("age" :> a) @@ ("phone" :> ph)
            @@ ("sex" :> sx) @@ ("skin_type" :> sk)) :
        n \in {Null, Str(" A "), Str("Al")},
        a \in {Null, Num(50), Num(100), Num(12000), Num(12100), NaN, Str("30")},
        ph \in {Null, Str("12345 "), Str("123456")},
        sx \in {Null, Str("Female")},
        sk \in {Null, Str("dry")}}

ProfileInit ==
    /\ profile \in ProfileRows \cup {Null}
    /\ verdicts = <<>>
    /\ NameIdle
    /\ RelayIdle
    /\ ResolverIdle
    /\ HookIdle

\* a rule gives its verdict on the row
Verdict(rule, complete) ==
    /\ verdicts' = (rule :> complete) @@ verdicts
    /\ UNCHANGED <<profile, nameVars, relayVars, resolverVars, hookVars>>

\* routePostAuth of Auth: if (isProfileComplete(data)) ...
AuthRoutes ==
    /\ "Auth" \notin DOMAIN verdicts
    /\ Verdict("Auth", isProfileCompleteAuth(profile))

AuthUpdatedRoutes ==
    /\ "AuthUpdated" \notin DOMAIN verdicts
    /\ Verdict("AuthUpdated", isProfileCompleteAuthUpdated(profile))

\* Onboarding on load: if (!error && data) { if (isComplete(p)) ... }
OnboardingLoads ==
    /\ "Onboarding" \notin DOMAIN verdicts
    /\ Truthy(profile)
    /\ Verdict("Onboarding", isComplete(profile))

\* ProfileGuard: setComplete(isProfileComplete(data))
GuardChecks ==
    /\ "ProfileGuard" \notin DOMAIN verdicts
    /\ Verdict("ProfileGuard", isProfileCompleteGuard(profile))

ProfileNext ==
    \/ AuthRoutes
    \/ AuthUpdatedRoutes
    \/ OnboardingLoads
    \/ GuardChecks

SpecProfile ==
    ProfileInit /\ [][ProfileNext]_vars

-----------------------------------------------------------------------------
(* Claims about getConditionName.                                           *)

\* the digit strings d with: s is "class", an optional separator, then d
C7_DigitsOf(s) ==
    {d \in {SubSeq(s, i, Len(s)) : i \in 1..Len(s)} :
        /\ \A k \in 1..Len(d) : Char(d, k) \in DIGITS
        /\ toLowerCase(SubSeq(s, 1, Len(s) - Len(d)))
              \in {"class"} \cup {"class" \o c : c \in WORD_SEPARATORS}}

\* s without its longest prefix that is "class" and an optional separator
C7_Rest(s) ==
    LET P == {n \in 0..Len(s) :
                 \/ n = 0
                 \/ toLowerCase(SubSeq(s, 1, n))
                       \in {"class"} \cup {"class" \o c : c \in WORD_SEPARATORS}}
        n == CHOOSE x \in P : \A y \in P : y <= x
    IN  SubSeq(s, n + 1, Len(s))

\* the places where the words of s start, a word being a maximal run of
\* characters that are not separators
C7_WordStarts(s) ==
    {i \in 1..Len(s) :
        /\ Char(s, i) \notin WORD_SEPARATORS
        /\ i = 1 \/ Char(s, i - 1) \in WORD_SEPARATORS}

C7_WordAt(s, i) ==
    LET j == CHOOSE e \in i..Len(s) :
                 /\ \A k \in i..e : Char(s, k) \notin WORD_SEPARATORS
                 /\ e = Len(s) \/ Char(s, e + 1) \in WORD_SEPARATORS
    IN  SubSeq(s, i, j)

C7_Words(s) ==
    LET starts == C7_WordStarts(s)
    IN  [n \in 1..Cardinality(starts) |->
            C7_WordAt(s, CHOOSE i \in starts :
                             Cardinality({x \in starts : x < i}) = n - 1)]

\* r is w with its first letter in upper case and its other letters in lower case
C7_IsTitleOf(r, w) ==
    /\ Len(r) = Len(w)
    /\ \A k \in 1..Len(w) :
          Char(r, k) = IF k = 1 THEN toUpperChar(toLowerChar(Char(w, k)))
                       ELSE toLowerChar(Char(w, k))

C17_Key ==
    toLowerCase(trim(label))

\* the mapped clinical name of a key class_<n> of the table
C17_ClinicalName ==
    RAW_CLASS_TO_NAME["Class_" \o SubSeq(C17_Key, 7, Len(C17_Key))]

-----------------------------------------------------------------------------
(* Claims about the relay.                                                  *)

\* the handler has returned the result of normalizeVendor
Normalized ==
    /\ relayPc = "done"
    /\ vendorRes # Undefined
    /\ vendorRes.kind = "fulfilled"
    /\ relayRes.status = 200

\* the number of conditions of the vendor's answer, 0 when it has none
ConditionCount ==
    LET conditions == Get(vendorRes.body.value, "conditions")
    IN  IF IsNullish(conditions) THEN 0 ELSE Len(conditions.v)

\* C1: normalizeVendor returns top_predictions, one for each condition of the
\* vendor's answer, in non-increasing order of confidence; top1_label and
\* top1_confidence are those of the first prediction when there is one, and
\* "Unknown" and 0 when `conditions` is empty or absent.
C1_SortedTopPredictions ==
    Normalized =>
        LET out == relayRes.body
            top == out.top_predictions
        IN  /\ Len(top) = ConditionCount
            /\ \A i, j \in 1..Len(top) :
                  i < j => top[i].confidence.v >= top[j].confidence.v
            /\ ConditionCount > 0 =>
                  /\ out.top1_label = top[1].label_name
                  /\ out.top1_confidence = top[1].confidence
            /\ ConditionCount = 0 =>
                  /\ out.top1_label = Str("Unknown")
                  /\ out.top1_confidence = Num(0)

\* two conditions that the vendor sent in increasing order of confidence
C1_Witness ==
    /\ Normalized
    /\ Get(vendorRes.body.value, "conditions") =
          Arr(<<Obj(("name" :> Str("Nevus")) @@ ("probability" :> Num(30))),
                Obj(("name" :> Str("Melanoma")) @@ ("probability" :> Num(90)))>>)
    /\ relayRes.body.top1_label = Str("Melanoma")
    /\ relayRes.body.top1_confidence = Num(90)

\* C2: in every normalized response malignant_flag is true exactly when
\* malignant_probability >= 0.5; when `risk` or its malignant_probability is
\* absent or not a number, malignant_probability is 0 and the flag is false.
C2_MalignantFlag ==
    Normalized =>
        LET out == relayRes.body
            risk == Get(vendorRes.body.value, "risk")
            given == IF IsNullish(risk) THEN Undefined
                     ELSE Get(risk, "malignant_probability")
        IN  /\ out.malignant_flag = (out.malignant_probability.v >= 50)
            /\ given.t = "number" => out.malignant_probability = given
            /\ given.t # "number" =>
                  /\ out.malignant_probability = Num(0)
                  /\ out.malignant_flag = FALSE

\* a probability just under the threshold, which is not flagged
C2_Witness ==
    /\ Normalized
    /\ Get(vendorRes.body.value, "risk") = Obj("malignant_probability" :> Num(49))
    /\ relayRes.body.malignant_probability = Num(49)
    /\ relayRes.body.malignant_flag = FALSE

\* the vendor answered with a status that is not 2xx
VendorFailed ==
    /\ relayPc = "done"
    /\ vendorRes # Undefined
    /\ vendorRes.kind = "fulfilled"
    /\ ~ok(vendorRes.status)

C10_BadBodyIs400 ==
    /\ relayPc = "done"
    /\ API_KEY # ""
    /\ req.method = "POST"
    /\ req.body.kind \in {"none", "text"}
    => /\ relayRes.status = 400
       /\ relayRes.body.success = FALSE
       /\ vendorCalls = 0

\* the request is a POST with a JSON content type and a JSON body
JsonPost ==
    /\ req.method = "POST"
    /\ includes(req.contentType, "application/json")
    /\ req.body.kind = "json"

\* the JSON body carries a non-empty value under the field
Carries(field) ==
    /\ ~IsNullish(req.body.value)
    /\ Truthy(Get(req.body.value, field))

\* C11 as claimed: with the credential configured, a JSON POST that carries
\* neither a non-empty imageDataUrl nor a non-empty imageBase64 is answered
\* with 400 and {success:false, message:"No image provided"}, and the vendor is
\* not called.
C11_NoImageIs400 ==
    /\ relayPc = "done"
    /\ API_KEY # ""
    /\ JsonPost
    /\ ~Carries("imageDataUrl")
    /\ ~Carries("imageBase64")
    => /\ relayRes.status = 400
       /\ relayRes.body = [success |-> FALSE, message |-> "No image provided"]
       /\ vendorCalls = 0

\* the handler has returned without calling the vendor
Refused ==
    /\ relayPc = "done"
    /\ vendorCalls = 0

\* C12: the checks are made in the order method, credential, content type,
\* image presence, and the first that fails decides the response: OPTIONS is
\* answered with 200 "ok", any other method but POST with 405, a POST without
\* the server credential with 500 whatever its content type and body, and a
\* POST with the credential and a content type that does not contain
\* application/json with 400.
C12_ChecksInOrder ==
    relayPc = "done" =>
        /\ req.method = "OPTIONS" =>
              /\ Refused
              /\ relayRes.status = 200
              /\ relayRes.body = "ok"
        /\ req.method \notin {"OPTIONS", "POST"} =>
              /\ Refused
              /\ relayRes.status = 405
        /\ req.method = "POST" /\ API_KEY = "" =>
              /\ Refused
              /\ relayRes.status = 500
              /\ relayRes.body.message = "Server missing API key"
        /\ /\ req.method = "POST"
           /\ API_KEY # ""
           /\ ~includes(req.contentType, "application/json")
           => /\ Refused
              /\ relayRes.status = 400
              /\ relayRes.body.message = "Use application/json body"

\* a GET with a text/plain body and no image while the credential is missing:
\* the method decides
C12_Witness ==
    /\ relayPc = "done"
    /\ req.method = "GET"
    /\ API_KEY = ""
    /\ req.contentType = "text/plain"
    /\ req.body.kind = "none"
    /\ relayRes.status = 405

\* C13: every response to a request other than OPTIONS has a JSON body and
\* the CORS headers, its `success` is true exactly when its status is 200, and
\* with any other status its body is {success:false, message} with a string as
\* message.
C13_ResponseShape ==
    relayPc = "done" /\ req.method # "OPTIONS" =>
        /\ \A h \in DOMAIN corsHeaders :
              /\ h \in DOMAIN relayRes.headers
              /\ relayRes.headers[h] = corsHeaders[h]
        /\ relayRes.headers["Content-Type"] = "application/json"
        /\ relayRes.body.success = (relayRes.status = 200)
        /\ relayRes.status # 200 =>
              /\ DOMAIN relayRes.body = {"success", "message"}
              /\ relayRes.body.message \in STRING

\* the vendor answers 200 with a page that is not JSON: an error response
\* although the vendor's status is 200
C13_Witness ==
    /\ relayPc = "done"
    /\ req.method = "POST"
    /\ vendorRes # Undefined
    /\ vendorRes.kind = "fulfilled"
    /\ vendorRes.status = 200
    /\ vendorRes.body = [kind |-> "text", text |-> "<html>"]
    /\ relayRes.status = 500
    /\ relayRes.body.success = FALSE

\* the relay has called the vendor for a request that carries the data URL
\* data:*;base64,<payload> as imageDataUrl
ForwardedDataUrl ==
    /\ relayPc \in {"fetch", "done"}
    /\ vendorCalls = 1
    /\ Carries("imageDataUrl")
    /\ startsWith(Get(req.body.value, "imageDataUrl").v, "data:")
    /\ includes(Get(req.body.value, "imageDataUrl").v, ";base64,")

\* the length of the prefix data:*;base64, of a data URL
C14_PrefixLength(url) ==
    Min({i \in 8..Len(url) : SubSeq(url, i - 7, i) = ";base64,"})

\* the <payload> of the data URL data:*;base64,<payload>
C14_Payload(url) ==
    SubSeq(url, C14_PrefixLength(url) + 1, Len(url))

\* C14 as claimed: whenever the relay forwards a request whose image was
\* supplied as a data URL, the `image` sent to the vendor is exactly the
\* payload of the data URL, for every combination of imageDataUrl and
\* imageBase64 present in the request.
C14_DataUrlPayloadSent ==
    ForwardedDataUrl =>
        Get(vendorPayload, "image") =
            Str(C14_Payload(Get(req.body.value, "imageDataUrl").v))

\* C14 amended: whenever the relay forwards a request whose imageDataUrl is a
\* data URL with no comma before its ";base64,", the `image` sent to the vendor
\* is exactly the payload of the data URL when imageBase64 is absent or empty,
\* and is imageBase64 as given when imageBase64 is not empty.
C14_ImageSent ==
    ForwardedDataUrl =>
        LET url == Get(req.body.value, "imageDataUrl").v
            image == Get(vendorPayload, "image")
        IN  /\ Carries("imageBase64") =>
                  image = Get(req.body.value, "imageBase64")
            /\ /\ ~Carries("imageBase64")
               /\ ~includes(SubSeq(url, 1, C14_PrefixLength(url) - 1), ",")
               => image = Str(C14_Payload(url))

\* a data URL next to an empty imageBase64: the payload is sent
C14_Witness ==
    /\ ForwardedDataUrl
    /\ Get(req.body.value, "imageDataUrl") = Str("data:image/png;base64,QUJD")
    /\ Get(req.body.value, "imageBase64") = Str("")
    /\ Get(vendorPayload, "image") = Str("QUJD")

\* the message of the exception raised in the try block of the handler, ""
\* when none is raised: req.json() rejects, the body is null, fetch rejects,
\* the Response of a vendor status cannot be constructed, vendorRes.json()
\* rejects, the vendor's JSON is null or holds a null condition
C27_Raised ==
    IF req.method # "POST" \/ API_KEY = ""
          \/ ~includes(req.contentType, "application/json")
    THEN ""
    ELSE IF req.body.kind # "json"
    THEN "Unexpected end of JSON input"
    ELSE IF req.body.value = Null
    THEN "Cannot read properties of null (reading 'imageDataUrl')"
    ELSE IF vendorCalls = 0
    THEN ""
    ELSE IF vendorRes.kind = "rejected"
    THEN vendorRes.message
    ELSE IF ~ok(vendorRes.status)
    THEN ResponseInitError(vendorRes.status)
    ELSE IF vendorRes.body.kind # "json"
    THEN "Unexpected token '<' is not valid JSON"
    ELSE IF vendorRes.body.value = Null
    THEN "Cannot read properties of null (reading 'conditions')"
    ELSE normalizeVendorError(vendorRes.body.value)

\* C27: the handler never throws: every exception raised while it handles a
\* POST after the check of the method (the vendor out of reach, a 2xx vendor
\* response whose body is no JSON, any other error) is answered with status
\* 500 and {success:false, message}, the message being that of the exception.
C27_NeverThrows ==
    relayPc = "done" =>
        /\ "status" \in DOMAIN relayRes
        /\ "type" \notin DOMAIN relayRes
        /\ C27_Raised # "" =>
              /\ relayRes.status = 500
              /\ relayRes.body = [success |-> FALSE, message |-> C27_Raised]

\* the vendor answers 200 with a page of HTML: vendorRes.json() rejects
C27_Witness ==
    /\ relayPc = "done"
    /\ vendorCalls = 1
    /\ vendorRes.kind = "fulfilled"
    /\ vendorRes.status = 200
    /\ vendorRes.body = [kind |-> "text", text |-> "<html>"]
    /\ relayRes.status = 500
    /\ relayRes.body.success = FALSE
    /\ relayRes.body.message = "Unexpected token '<' is not valid JSON"

\* the request is answered by one of the checks of the handler: OPTIONS, the
\* method, the credential, the content type, the presence of an image
C28_AnsweredByCheck ==
    \/ req.method # "POST"
    \/ API_KEY = ""
    \/ ~includes(req.contentType, "application/json")
    \/ /\ req.body.kind = "json"
       /\ req.body.value # Null
       /\ ~Carries("imageDataUrl")
       /\ ~Carries("imageBase64")

\* the vendor call failed: it rejected, or its status was not 2xx, or its
\* body was not the JSON expected
C28_VendorCallFailed ==
    /\ relayPc = "done"
    /\ vendorCalls > 0
    /\ relayRes.body.success = FALSE

\* C28: an invocation of the relay makes at most one call of the vendor, with
\* no retry on any failure, and makes none when the request is answered by
\* the OPTIONS, method, credential, content-type or image-presence check.
C28_AtMostOneVendorCall ==
    /\ vendorCalls \in {0, 1}
    /\ relayPc = "fetch" => vendorCalls = 1
    /\ C28_VendorCallFailed => vendorCalls = 1
    /\ relayPc # "request" /\ C28_AnsweredByCheck =>
          /\ relayPc = "done"
          /\ vendorCalls = 0
          /\ vendorPayload = Undefined
          /\ vendorRes = Undefined

\* a JSON POST whose imageDataUrl is empty, with the credential: answered by
\* the image-presence check without a call
C28_Witness ==
    /\ relayPc = "done"
    /\ JsonPost
    /\ API_KEY # ""
    /\ req.body.value # Null
    /\ "imageDataUrl" \in DOMAIN req.body.value.v
    /\ ~Carries("imageDataUrl")
    /\ ~Carries("imageBase64")
    /\ relayRes.status = 400
    /\ relayRes.body.message = "No image provided"
    /\ vendorCalls = 0

-----------------------------------------------------------------------------
(* Claims about the resolvers.                                              *)

\* the cache of the resolver fn
CacheOf(fn) ==
    IF fn = "info" THEN infoCache ELSE statsCache

\* calls i and j are calls of one resolver with the same cache key
SameKey(i, j) ==
    /\ calls[i].fn = calls[j].fn
    /\ calls[i].key = calls[j].key

\* call j is the call that follows call i: it starts after call i has
\* settled, and no other call with their key settles in between
InSequence(i, j) ==
    /\ SameKey(i, j)
    /\ calls[i].pc = "done"
    /\ calls[i].finishedAt < calls[j].startedAt
    /\ ~\E k \in 1..Len(calls) :
          /\ SameKey(i, k)
          /\ calls[k].pc = "done"
          /\ calls[i].finishedAt < calls[k].finishedAt
          /\ calls[k].finishedAt < calls[j].startedAt

\* C4: of two calls of a resolver in sequence with the same condition, the
\* second returns the record that the first returned and issues no request,
\* whatever the first call ended with.
C4_SecondCallFromCache ==
    \A i, j \in 1..Len(calls) :
        InSequence(i, j) =>
            /\ calls[j].pc = "done"
            /\ calls[j].settled = "fulfilled"
            /\ calls[j].value = calls[i].value
            /\ calls[j].requests = 0

\* a call of getSkinDiseaseInfo whose request failed, and a second call with
\* the same condition in another spelling
C4_Witness ==
    /\ Len(calls) = 2
    /\ InSequence(1, 2)
    /\ calls[1].fn = "info"
    /\ calls[1].condition = "Eczema"
    /\ calls[1].response = FetchRejected
    /\ calls[1].value.source = "error"
    /\ calls[2].condition = " eczema "
    /\ calls[2].value = calls[1].value
    /\ calls[2].requests = 0

\* C5 as claimed: from a reply in the template of the prompt, with the lines
\* "**Disease Name:** Eczema" and "**Common Symptoms:** itching, redness", the
\* parser produces condition "Eczema" and symptoms ["itching", "redness"].
C5_TemplateParsed ==
    \A i \in 1..Len(calls) :
        /\ calls[i].fn = "info"
        /\ calls[i].pc = "done"
        /\ calls[i].response = Json(ChatCompletion(Str(TemplateReply)))
        => /\ calls[i].value.condition = "Eczema"
           /\ calls[i].value.symptoms = <<"itching", "redness">>

\* C6: no record that getDiseaseStats returns, generated, mock or error, has
\* a row whose state is "unknown" in any letter case, also when the reply has
\* such a row or a row without state and region.
C6_NoUnknownState ==
    \A i \in 1..Len(calls) :
        calls[i].fn = "stats" /\ calls[i].settled = "fulfilled" =>
            \A n \in 1..Len(calls[i].value.data) :
                toLowerCase(calls[i].value.data[n].state) # "unknown"

\* a reply with a row for Kerala and a row for "Unknown": the record has the
\* row for Kerala alone
C6_Witness ==
    /\ Len(calls) = 1
    /\ calls[1].fn = "stats"
    /\ calls[1].settled = "fulfilled"
    /\ calls[1].response = Json(ChatCompletion(Str(stringify(KeralaAndUnknown))))
    /\ calls[1].value.source = "openrouter"
    /\ Len(calls[1].value.data) = 1
    /\ calls[1].value.data[1].state = "Kerala"

\* call i is the first call of its resolver with its cache key
FirstOfKey(i) ==
    ~\E k \in 1..(i - 1) : SameKey(i, k)

\* C8: without a key of the generative API every call returns at once, with no
\* request, and a call that misses the cache returns and caches a static
\* record: getDiseaseStats the six rows of the mock table with source "mock",
\* getSkinDiseaseInfo the fallback record with source "fallback" and no
\* symptoms and no causes.
C8_NoKeyNoRequest ==
    OPENROUTER_API_KEY = "" =>
        \A i \in 1..Len(calls) :
            LET call == calls[i]
                key == call.key
            IN  /\ call.requests = 0
                /\ call.pc = "done"
                /\ call.settled = "fulfilled"
                /\ key \in DOMAIN CacheOf(call.fn)
                /\ CacheOf(call.fn)[key] = call.value
                /\ FirstOfKey(i) => call.value.condition = call.condition
                /\ call.fn = "stats" =>
                      /\ call.value.source = "mock"
                      /\ Len(call.value.data) = 6
                      /\ call.value.data[1].state = "Maharashtra"
                /\ call.fn = "info" =>
                      /\ call.value.source = "fallback"
                      /\ call.value.symptoms = <<>>
                      /\ call.value.causes = <<>>

\* getDiseaseStats("Psoriasis") without a key
C8_Witness ==
    /\ OPENROUTER_API_KEY = ""
    /\ Len(calls) >= 1
    /\ calls[1].fn = "stats"
    /\ calls[1].condition = "Psoriasis"
    /\ calls[1].requests = 0
    /\ calls[1].value.source = "mock"
    /\ Len(calls[1].value.data) = 6
    /\ statsCache["psoriasis"] = calls[1].value

\* the source tags of the records of the resolver fn
SourceTags(fn) ==
    IF fn = "info" THEN {"openrouter", "fallback", "error"}
    ELSE {"openrouter", "mock", "error"}

\* C9: whatever its request is answered with (fetch rejects, a status that is
\* not 2xx, a body that is no JSON, a reply of another shape, rows that are
\* null or no objects), a call of getSkinDiseaseInfo or getDiseaseStats that
\* settles is fulfilled with a record with a source tag of its type, and is
\* never rejected.
C9_NeverRejects ==
    \A i \in 1..Len(calls) :
        calls[i].pc = "done" =>
            /\ calls[i].settled = "fulfilled"
            /\ calls[i].value.source \in SourceTags(calls[i].fn)
            /\ calls[i].value.condition # ""

\* a reply whose array holds null: reading its state throws, and the call
\* returns the table of the catch
C9_Witness ==
    /\ Len(calls) = 1
    /\ calls[1].fn = "stats"
    /\ calls[1].response = Json(ChatCompletion(Str(stringify(Arr(<<Null>>)))))
    /\ calls[1].settled = "fulfilled"
    /\ calls[1].value.source = "error"
    /\ Len(calls[1].value.data) = 4

\* the one call is a call of fn that missed the cache with the credential
\* configured, and has returned
MissSettled(fn) ==
    /\ Len(calls) = 1
    /\ calls[1].fn = fn
    /\ calls[1].pc = "done"
    /\ calls[1].settled = "fulfilled"
    /\ calls[1].requests = 1

\* the text of the reply the call received: "" when the content is absent
ReplyText ==
    Coalesce(getContent(calls[1].response.body), Str(""))

\* the request or the reading of the reply of the one call threw
InfoThrew ==
    \/ calls[1].response.kind \in {"rejected", "no json"}
    \/ /\ calls[1].response.kind = "json"
       /\ ReplyText.t # "string"

\* C15: on a cache miss of getSkinDiseaseInfo with the credential configured,
\* an empty reply or a reply that is exactly "Not a skin-related condition."
\* yields the full fallback record, with source "fallback"; an exception
\* during the request or the parsing yields a record with source "error"
\* whose description, symptoms, causes and prevention_treatment are those of
\* the fallback record.
C15_FallbackAndError ==
    MissSettled("info") =>
        LET call == calls[1]
            fb == FALLBACK_INFO(call.condition, call.finishedAt)
        IN  /\ /\ call.response.kind = "json"
               /\ ReplyText \in {Str(""), Str("Not a skin-related condition.")}
               => call.value = fb
            /\ InfoThrew =>
                  /\ call.value.source = "error"
                  /\ call.value.description = fb.description
                  /\ call.value.symptoms = fb.symptoms
                  /\ call.value.causes = fb.causes
                  /\ call.value.prevention_treatment = fb.prevention_treatment

\* the body of the reply is no JSON: response.json() rejects, and the record
\* of the catch carries the texts of the fallback
C15_Witness ==
    /\ MissSettled("info")
    /\ calls[1].response = NoJson
    /\ calls[1].value.source = "error"
    /\ calls[1].value.symptoms = <<>>
    /\ calls[1].value.description =
          FALLBACK_INFO(calls[1].condition, calls[1].finishedAt).description

\* the reply of the one call is a text that JSON.parse accepts neither after
\* the stripping of the fences nor in its part from "[" to "]"
Unparseable ==
    /\ calls[1].response.kind = "json"
    /\ ReplyText.t = "string"
    /\ LET cleaned == stripFences(ReplyText.v)
           arrMatch == matchArray(cleaned)
       IN  /\ ~IsJson(cleaned)
           /\ arrMatch = "" \/ ~IsJson(arrMatch)

\* C16 as claimed: when the reply to getDiseaseStats can be parsed neither
\* directly as JSON, after the stripping of the code fences, nor through its
\* first [...] substring, the result is the mock table tagged source "error".
C16_UnparseableIsError ==
    MissSettled("stats") /\ Unparseable => calls[1].value.source = "error"

\* C16 amended: when the reply to getDiseaseStats is a text that can be parsed
\* neither directly as JSON, after the stripping of the code fences, nor
\* through its first [...] substring, the result is the six-row mock table
\* tagged source "mock", the table of a call without the credential.
C16_UnparseableIsMock ==
    MissSettled("stats") /\ Unparseable =>
        calls[1].value = mockStats(calls[1].condition, 1, calls[1].finishedAt)

\* a reply with a bracket that holds no JSON
C16_Witness ==
    /\ MissSettled("stats")
    /\ Unparseable
    /\ ReplyText = Str("As of [2024, no data] is available.")
    /\ calls[1].value.source = "mock"
    /\ Len(calls[1].value.data) = 6

\* the trimmed, lower-cased condition
C18_KeyOf ==
    [c \in Conditions |-> trim(toLowerCase(c))]

\* calls i and j are calls of one resolver for conditions that are the same
\* once trimmed and lower-cased
C18_SameCondition(i, j) ==
    /\ calls[i].fn = calls[j].fn
    /\ C18_KeyOf[calls[i].condition] = C18_KeyOf[calls[j].condition]

\* call j starts after call i has completed
C18_After(i, j) ==
    /\ calls[i].pc = "done"
    /\ calls[i].finishedAt < calls[j].startedAt

\* C18: both caches are keyed by the trimmed, lower-cased condition: after a
\* call for c has completed, a call for any c' that is the same once trimmed
\* and lower-cased is a cache hit, which issues no request and returns the
\* record of the first call verbatim, with the `condition` the first call
\* gave it (no other call for the condition having completed in between).
C18_KeyedByNormalizedCondition ==
    \A i, j \in 1..Len(calls) :
        C18_SameCondition(i, j) /\ C18_After(i, j) =>
            /\ calls[j].pc = "done"
            /\ calls[j].settled = "fulfilled"
            /\ calls[j].requests = 0
            /\ (~\E k \in 1..Len(calls) :
                    /\ C18_SameCondition(i, k)
                    /\ C18_After(k, j)
                    /\ calls[i].finishedAt < calls[k].finishedAt)
               => /\ calls[j].value = calls[i].value
                  /\ calls[j].value.condition = calls[i].value.condition

\* getDiseaseStats(" eczema ") answered with a row, then
\* getDiseaseStats("Eczema"): the record keeps the condition " eczema "
C18_Witness ==
    /\ Len(calls) = 2
    /\ calls[1].fn = "stats"
    /\ calls[1].condition = " eczema "
    /\ calls[1].requests = 1
    /\ calls[1].pc = "done"
    /\ calls[1].value.source = "openrouter"
    /\ calls[2].condition = "Eczema"
    /\ calls[2].pc = "done"
    /\ calls[2].requests = 0
    /\ calls[2].value = calls[1].value
    /\ calls[2].value.condition = " eczema "

\* the clock at the end of call i: a call in flight ends later than now
C19_End(i) ==
    IF calls[i].pc = "done" THEN calls[i].finishedAt ELSE now

\* calls i and j have the same key, and each started before the other
\* completed
C19_Overlap(i, j) ==
    /\ i # j
    /\ SameKey(i, j)
    /\ calls[i].startedAt < C19_End(j)
    /\ calls[j].startedAt < C19_End(i)

\* no call with the key of call i had completed when call i started: the cache
\* had no entry for the key
C19_StartedOnEmptyCache(i) ==
    ~\E k \in 1..Len(calls) :
        /\ SameKey(i, k)
        /\ calls[k].pc = "done"
        /\ calls[k].finishedAt < calls[i].startedAt

\* the source tag of the record that a resolver builds from a response
C19_SourceFor(fn, response) ==
    CASE response.kind \in {"rejected", "no json"} -> "error"
      [] response.kind = "not ok" -> IF fn = "info" THEN "fallback" ELSE "mock"
      [] response.kind = "json" -> "openrouter"

\* call i has returned the record built from its own response, at its own
\* time
C19_OwnRecord(i) ==
    /\ calls[i].settled = "fulfilled"
    /\ calls[i].value.source = C19_SourceFor(calls[i].fn, calls[i].response)
    /\ calls[i].value.retrieved_at = calls[i].finishedAt

\* C19: there is no single-flight: when two calls of a resolver for the same
\* key are started before either completes, with the credential configured and
\* no entry for the key in the cache, both miss the cache and each issues its
\* own request; each caller receives the record built from its own response,
\* and the entry left in the cache is the one written by the call that
\* completes last.
C19_NoSingleFlight ==
    \A i, j \in 1..Len(calls) :
        /\ OPENROUTER_API_KEY # ""
        /\ C19_Overlap(i, j)
        /\ C19_StartedOnEmptyCache(i)
        /\ C19_StartedOnEmptyCache(j)
        => /\ calls[i].requests = 1
           /\ calls[j].requests = 1
           /\ calls[i].pc = "done" => C19_OwnRecord(i)
           /\ /\ calls[i].pc = "done"
              /\ calls[j].pc = "done"
              /\ calls[j].finishedAt < calls[i].finishedAt
              /\ ~\E k \in 1..Len(calls) :
                    /\ SameKey(i, k)
                    /\ calls[k].pc = "done"
                    /\ calls[i].finishedAt < calls[k].finishedAt
              => /\ CacheOf(calls[i].fn)[calls[i].key] = calls[i].value
                 /\ calls[j].value # calls[i].value

\* two calls of getSkinDiseaseInfo in flight together: the second fails
\* first, the first is answered later, and its record replaces the record
\* of the failure
C19_Witness ==
    /\ Len(calls) = 2
    /\ C19_Overlap(1, 2)
    /\ calls[1].fn = "info"
    /\ calls[1].pc = "done"
    /\ calls[2].pc = "done"
    /\ calls[2].finishedAt < calls[1].finishedAt
    /\ calls[2].value.source = "error"
    /\ calls[1].value.source = "openrouter"
    /\ infoCache["eczema"] = calls[1].value

\* call i completes in the step
C20_Completes(i) ==
    /\ calls'[i].pc = "done"
    /\ i <= Len(calls) => calls[i].pc # "done"

\* call i, which completes in the step, had missed the cache: it was in
\* flight, or it starts in the step and the cache has no entry for its key
C20_Missed(i) ==
    \/ i <= Len(calls)
    \/ calls'[i].key \notin DOMAIN CacheOf(calls'[i].fn)

\* the cache of the resolver fn after the step
C20_CacheAfter(fn) ==
    IF fn = "info" THEN infoCache' ELSE statsCache'

\* in a step, every call that completes after a miss leaves its result under
\* its key, and no entry of a cache is removed
C20_Step ==
    /\ \A i \in 1..Len(calls') :
          C20_Completes(i) /\ C20_Missed(i) =>
              /\ calls'[i].settled = "fulfilled"
              /\ calls'[i].key \in DOMAIN C20_CacheAfter(calls'[i].fn)
              /\ C20_CacheAfter(calls'[i].fn)[calls'[i].key] = calls'[i].value
    /\ DOMAIN infoCache \subseteq DOMAIN infoCache'
    /\ DOMAIN statsCache \subseteq DOMAIN statsCache'

\* call i has completed with a failure-tagged record
C20_Failed(i) ==
    /\ calls[i].pc = "done"
    /\ calls[i].settled = "fulfilled"
    /\ calls[i].value.source \in {"error", "fallback", "mock"}

\* every call for the key of a failed call that starts after the failure
\* returns the record of the failure without a request
C20_FailureReturnedLater ==
    \A i, j \in 1..Len(calls) :
        /\ SameKey(i, j)
        /\ C20_Failed(i)
        /\ calls[i].finishedAt < calls[j].startedAt
        => /\ calls[j].pc = "done"
           /\ calls[j].requests = 0
           /\ calls[j].value = calls[i].value

\* C20 as claimed: every call that completes after a cache miss inserts its
\* result under the key, whatever the outcome, and no entry is ever removed;
\* once a call for a key has completed with a failure-tagged record, every
\* later call for that key returns that record without a new request.
C20_FailuresNeverRetried ==
    [][C20_Step]_vars /\ []C20_FailureReturnedLater

\* the call with the key of call j that completed last before call j started
C20_LastBefore(j) ==
    CHOOSE k \in 1..Len(calls) :
        /\ SameKey(j, k)
        /\ calls[k].pc = "done"
        /\ calls[k].finishedAt < calls[j].startedAt
        /\ \A l \in 1..Len(calls) :
              /\ SameKey(j, l)
              /\ calls[l].pc = "done"
              /\ calls[l].finishedAt < calls[j].startedAt
              => calls[l].finishedAt <= calls[k].finishedAt

\* every call for the key of a failed call that starts after the failure
\* issues no request and returns the record of the call for the key that
\* completed last before it started
C20_LaterCallsFromCache ==
    \A i, j \in 1..Len(calls) :
        /\ SameKey(i, j)
        /\ C20_Failed(i)
        /\ calls[i].finishedAt < calls[j].startedAt
        => /\ calls[j].pc = "done"
           /\ calls[j].settled = "fulfilled"
           /\ calls[j].requests = 0
           /\ calls[j].value = calls[C20_LastBefore(j)].value

\* C20 amended: every call that completes after a cache miss inserts its
\* result under the key, whatever the outcome, and no entry is ever removed;
\* once a call for a key has completed with a failure-tagged record, every
\* later call for that key issues no new request and returns the record cached
\* under the key when it starts: the record of the failure, unless another
\* call for the key, in flight when the failure was cached, completed after it
\* and replaced it, and then the record of the call that completed last.
C20_NeverRetried ==
    [][C20_Step]_vars /\ []C20_LaterCallsFromCache

\* call 1 fails while call 2 is in flight, call 2 is answered, and call 3,
\* started after both, returns the record of call 2 without a request
C20_Witness ==
    /\ Len(calls) = 3
    /\ calls[1].pc = "done"
    /\ calls[2].pc = "done"
    /\ calls[3].pc = "done"
    /\ calls[2].startedAt < calls[1].finishedAt
    /\ calls[1].finishedAt < calls[2].finishedAt
    /\ calls[2].finishedAt < calls[3].startedAt
    /\ calls[1].value.source = "error"
    /\ calls[2].value.source = "openrouter"
    /\ calls[3].requests = 0
    /\ calls[3].value = calls[2].value

-----------------------------------------------------------------------------
(* Claims about parseModelMarkdown.                                         *)

\* the one call is a call of getSkinDiseaseInfo whose reply, trimmed, went
\* to parseModelMarkdown: it is a text, not empty and not the rejection
InfoParsed ==
    /\ MissSettled("info")
    /\ calls[1].response.kind = "json"
    /\ ReplyText.t = "string"
    /\ trim(ReplyText.v) \notin {"", "Not a skin-related condition."}

\* the first line, in the order of the reply, that starts in any letter case
\* with the label as the template of the prompt writes it, "**Label:**", or
\* with the plain "Label:"; "" when there is none
C21_Line(lines, lineLabel) ==
    LET found == {i \in 1..Len(lines) :
                     \/ startsWith(toLowerCase(lines[i]),
                                   toLowerCase("**" \o lineLabel \o ":**"))
                     \/ startsWith(toLowerCase(lines[i]),
                                   toLowerCase(lineLabel \o ":"))}
    IN  IF found = {} THEN ""
        ELSE lines[CHOOSE i \in found : \A j \in found : i <= j]

\* the value of such a line: the text behind its first colon, trimmed, and,
\* for a line in the bold form, also the text behind the bold label
C21_Values(line, lineLabel) ==
    LET bold == "**" \o lineLabel \o ":**"
    IN  {getValueAfterColon(line)}
            \cup IF startsWith(toLowerCase(line), toLowerCase(bold))
                 THEN {trim(SubSeq(line, Len(bold) + 1, Len(line)))}
                 ELSE {}

\* C21 as claimed: for each of the five fields parseModelMarkdown uses the
\* first line of the reply that starts, in any letter case, with the label of
\* the field in the bold form of the prompt's template ("**Description:**")
\* or in its plain form ("Description:"), and the value of the field is the
\* text after the first colon of that line, trimmed.
C21_FirstLabelledLine ==
    InfoParsed =>
        LET lines == toLines(trim(ReplyText.v))
            nameLine == C21_Line(lines, "Disease Name")
            descLine == C21_Line(lines, "Description")
            symLine == C21_Line(lines, "Common Symptoms")
            causeLine == C21_Line(lines, "Causes")
            treatLine == C21_Line(lines, "Prevention & Treatment")
            value == calls[1].value
        IN  /\ nameLine # "" =>
                  value.condition \in C21_Values(nameLine, "Disease Name")
            /\ descLine # "" =>
                  value.description \in C21_Values(descLine, "Description")
            /\ symLine # "" =>
                  value.symptoms \in
                      {toItems(v) : v \in C21_Values(symLine, "Common Symptoms")}
            /\ causeLine # "" =>
                  value.causes \in
                      {toItems(v) : v \in C21_Values(causeLine, "Causes")}
            /\ treatLine # "" =>
                  value.prevention_treatment \in
                      C21_Values(treatLine, "Prevention & Treatment")

-----------------------------------------------------------------------------
(* Claims about the records of getDiseaseStats.                             *)

\* the states of the rows of a record, in their order
StatesOf(record) ==
    [k \in 1..Len(record.data) |-> record.data[k].state]

\* something threw in the try block of the one call: fetch rejected, the body
\* was no JSON, the content was no string, or an element of the parsed array
\* was null
C23_Threw ==
    \/ calls[1].response.kind \in {"rejected", "no json"}
    \/ /\ calls[1].response.kind = "json"
       /\ \/ ReplyText.t # "string"
          \/ LET parsed == parsedReplies[calls[1].response.body]
             IN  /\ parsed.type = "return"
                 /\ parsed.value.t = "array"
                 /\ \E k \in 1..Len(parsed.value.v) : parsed.value.v[k] = Null

\* C23: the tag of a record of getDiseaseStats fixes its table and its cause:
\* a record tagged "mock" has exactly the six fixed rows, a record tagged
\* "error" has exactly the four rows of the alternate table and is returned
\* only when something threw in the try block, and a missing credential, a
\* status that is not 2xx and an unparseable reply each return the six rows
\* tagged "mock".
C23_TagFixesTable ==
    /\ Len(calls) = 1
    /\ calls[1].fn = "stats"
    /\ calls[1].pc = "done"
    => LET call == calls[1]
       IN  /\ call.settled = "fulfilled"
           /\ call.value.source = "mock" =>
                 /\ call.value.data = mockStats(call.condition, 1, 0).data
                 /\ StatesOf(call.value) =
                       <<"Maharashtra", "Tamil Nadu", "Uttar Pradesh", "Kerala",
                         "Delhi", "Karnataka">>
           /\ call.value.source = "error" =>
                 /\ call.value.data = mockStats(call.condition, 2, 0).data
                 /\ StatesOf(call.value) =
                       <<"Maharashtra", "Tamil Nadu", "Uttar Pradesh", "Kerala">>
                 /\ call.requests = 1
                 /\ C23_Threw
           /\ \/ call.requests = 0
              \/ call.response = NotOk
              \/ call.requests = 1 /\ Unparseable
              => /\ call.value.source = "mock"
                 /\ Len(call.value.data) = 6

\* an element of the array of the reply is null: normalizeArray throws, and
\* the catch returns the four rows tagged "error"
C23_Witness ==
    /\ MissSettled("stats")
    /\ calls[1].response = Json(ChatCompletion(Str(stringify(Arr(<<Null, GoaRow>>)))))
    /\ C23_Threw
    /\ calls[1].value.source = "error"
    /\ Len(calls[1].value.data) = 4
    /\ calls[1].value.data[4].cases = 2500000

\* numbers are held in hundredths: n is an integer
IsInteger(n) ==
    n % 100 = 0

\* C24 as claimed: every row of every record that getDiseaseStats returns
\* has cases a non-negative integer and prevalence_rate a non-negative finite
\* number, whatever the rows of the reply carried: negative, non-numeric,
\* fractional or missing values.
C24_RowsAreCounts ==
    \A i \in 1..Len(calls) :
        /\ calls[i].fn = "stats"
        /\ calls[i].pc = "done"
        /\ calls[i].settled = "fulfilled"
        => \A k \in 1..Len(calls[i].value.data) :
              LET row == calls[i].value.data[k]
              IN  /\ row.cases \in Nat
                  /\ IsInteger(row.cases)
                  /\ row.prevalence_rate \in Nat

-----------------------------------------------------------------------------
(* Claims about useDiseaseInsights.                                         *)

\* the run e of the effect is no longer the one of the present argument:
\* the component has unmounted, or it has rendered with another argument
C25_Superseded(e) ==
    \/ ~mounted
    \/ e # Len(effects)
    \/ conditionProp # Str(effects[e].condition)

\* run e goes on after its await in this step
C25_Resumes(e) ==
    /\ effects[e].pc = "await"
    /\ effects'[e].pc = "done"

\* the call i settles in this step
C25_Settles(i) ==
    /\ calls[i].pc # "done"
    /\ calls'[i].pc = "done"

\* a step of the hook: a superseded run that goes on leaves the state of the
\* hook as it is; a render with another argument and an unmount leave every
\* call as it is; a call of a superseded run that settles writes its record
\* to the cache
C25_Step ==
    /\ \A e \in 1..Len(effects) :
          C25_Resumes(e) /\ C25_Superseded(e) => insights' = insights
    /\ mounted /\ (~mounted' \/ conditionProp' # conditionProp) =>
          \A i \in 1..Len(calls) : calls'[i] = calls[i]
    /\ \A e \in 1..Len(effects) :
          C25_Superseded(e) /\ C25_Settles(effects[e].call) =>
              LET call == calls'[effects[e].call]
              IN  /\ call.settled = "fulfilled"
                  /\ call.key \in DOMAIN infoCache'
                  /\ infoCache'[call.key] = call.value

C26_Quiet ==
    /\ \A i \in 1..Len(calls) : calls[i].pc = "done"
    /\ \A e \in 1..Len(effects) : effects[e].pc = "done"

\* C26 as claimed: for every sequence of changes of the condition on a
\* mounted component, also to null or to the empty string while a call is in
\* flight, loadingInfo does not stay true: once every outstanding resolver
\* call has completed, and every run has gone on after its await, it is false.
C26_LoadingEnds ==
    mounted /\ C26_Quiet => ~insights.loadingInfo

-----------------------------------------------------------------------------
(* Claims about the ownership of the caches.                                *)

\* call i acts in the step: it starts, goes on or settles
C29_Acts(i) ==
    \/ i > Len(calls)
    \/ calls'[i] # calls[i]

\* the cache of the other resolver before and after the step
C29_OtherCache(fn) ==
    IF fn = "info" THEN statsCache ELSE infoCache

C29_OtherCacheAfter(fn) ==
    IF fn = "info" THEN statsCache' ELSE infoCache'

\* call i starts in the step and finds an entry for its key
C29_Hit(i) ==
    /\ i > Len(calls)
    /\ calls'[i].key \in DOMAIN CacheOf(calls'[i].fn)

\* a step of a call for the key k leaves the cache of the other resolver as
\* it is, and in its own cache adds or overwrites at most the entry of k; a
\* cache hit changes neither cache
C29_Step ==
    \A i \in 1..Len(calls') :
        C29_Acts(i) =>
            LET fn == calls'[i].fn
                k == calls'[i].key
                own == CacheOf(fn)
                ownAfter == C20_CacheAfter(fn)
            IN  /\ C29_OtherCacheAfter(fn) = C29_OtherCache(fn)
                /\ DOMAIN ownAfter \subseteq DOMAIN own \cup {k}
                /\ \A other \in DOMAIN own \ {k} :
                      /\ other \in DOMAIN ownAfter
                      /\ ownAfter[other] = own[other]
                /\ C29_Hit(i) =>
                      /\ ownAfter = own
                      /\ calls'[i].requests = 0
                      /\ calls'[i].value = own[k]

\* C29: each resolver owns its cache: a call of getSkinDiseaseInfo leaves the
\* stats cache unchanged and a call of getDiseaseStats leaves the info cache
\* unchanged; a call for the key k adds or overwrites at most the entry of k
\* in its own cache and leaves the entries of every other key unchanged; a
\* cache hit changes nothing.
C29_CacheOwnership ==
    [][C29_Step]_vars

\* a call of getDiseaseStats for "Eczema" was answered while the stats cache
\* held the entry of "Psoriasis" and the info cache was empty: the entry of
\* "Psoriasis" is as the first call left it and the info cache is empty
C29_Witness ==
    /\ Len(calls) = 2
    /\ calls[1].fn = "stats"
    /\ calls[2].fn = "stats"
    /\ calls[1].key = "psoriasis"
    /\ calls[2].key = "eczema"
    /\ calls[1].pc = "done"
    /\ calls[2].pc = "done"
    /\ calls[2].requests = 1
    /\ calls[1].finishedAt < calls[2].finishedAt
    /\ DOMAIN statsCache = {"eczema", "psoriasis"}
    /\ statsCache["psoriasis"] = calls[1].value
    /\ statsCache["eczema"] = calls[2].value
    /\ infoCache = <<>>

-----------------------------------------------------------------------------
(* Claims about the rules of profile completeness.                          *)

\* C30 as claimed: the rules of the sign-in routing, of the onboarding page
\* and of the route guard agree: on every row of profiles, isProfileComplete
\* of Auth, isComplete of Onboarding and isProfileComplete of ProfileGuard
\* return the same result, so that a row which onboarding accepts as complete
\* is never sent back to onboarding by the sign-in routing or by the guard.
C30_RulesAgree ==
    /\ \A a, b \in DOMAIN verdicts : verdicts[a] = verdicts[b]
    /\ "Onboarding" \in DOMAIN verdicts /\ verdicts["Onboarding"] =>
          \A rule \in DOMAIN verdicts : verdicts[rule]

====
